---- MODULE Spec2Model ----
(***************************************************************************)
(* A model of the jimeng-api gateway: the image generation pipeline of     *)
(* src/unnamed/part_009 (controllers/images.ts) with the uploader of       *)
(* src/src/lib/image-uploader.ts, and the request validation of the        *)
(* routes in src/unnamed/part_008 (routes/images.ts) and                   *)
(* src/src/api/routes/videos.ts.                                           *)
(*                                                                         *)
(* Specifications:                                                         *)
(*   SpecGen    one call of generateImages / generateImageComposition      *)
(*   SpecRoute  one POST to /v1/images/generations,                        *)
(*              /v1/images/compositions or /v1/videos/generations          *)
(***************************************************************************)
EXTENDS Integers, Sequences, FiniteSets, TLC

VARIABLES
    \* ---- generation pipeline (controllers/images.ts) ----
    req,              \* the arguments of the call
    pc,               \* position of the call
    i,                \* loop variable of the upload loop (0-based)
    uploads,          \* per input image: phase of its processImageInput call
    returnedUri,      \* per input image: the Uri its commit returned (0: none)
    uriCounter,       \* number of Uris the object store has handed out
    uploadedImageIds, \* the array of the same name
    calls,            \* number of requests sent, per endpoint
    creditWarned,     \* logger.warn of the credit try/catch was written
    overrideWarned,   \* logger.warn of the nanobanana override was written
    draft,            \* the draft_content sent with aigc_draft/generate
    draftResponse,    \* shape of the answer of aigc_draft/generate ("-": none yet)
    poller,           \* the SmartPoller instance
    outcome,          \* how the call ended
    \* ---- routes ----
    rreq,             \* the HTTP request a route handler received
    rpc,              \* position of the route handler
    rcall,            \* the controller call the handler made, or its error
    rtoken,           \* a token was picked with _.sample(tokens)
    \* ---- web UI: ApiService.chatStream ----
    config,           \* this.config is set
    body,             \* the response body: its lines, and whether the last
                      \* line ends with a newline
    pos,              \* half lines of the body the reader has handed out
    onMessageCalls,   \* the calls of the onMessage callback, in order
    onErrorCalls,     \* the calls of the onError callback, in order
    chatPc,           \* position of the chatStream call
    \* ---- functions applied to one input ----
    fnArg,            \* the input
    fnResult,         \* whether the function was applied, and its result
    \* ---- the start-up test and the server process it spawns ----
    child,            \* the spawned server process
    testPc,           \* position of the test
    elapsed,          \* Date.now() - start of waitForOk, in ms
    lastFetch,        \* the last fetch of the test: its URL and its answer
    testResult,       \* how the test ended
    \* ---- web UI: ChatView and the chat store ----
    messageInput,     \* the input box holds text
    messages,         \* chatStore.messages: the role of each message
    isStreaming,      \* chatStore.isStreaming
    currentStreamContent, \* chatStore.currentStreamContent: per chunk, its stream
    abortStream,      \* the stream the abort function of ChatView ends (0: null)
    streams,          \* the chatStream calls made so far, and what each delivered
    \* ---- web UI: MainLayout, the settings store, apiService and the credit store ----
    sessionId,        \* settingsStore.sessionId
    apiConfig,        \* apiService.config
    watched,          \* the value of isConfigured the watcher of MainLayout saw last
    layoutPc,         \* MainLayout is mounted or not
    generating,       \* a generateSession request is in flight
    edits,            \* number of changes made to the settings so far
    creditInfo,       \* creditStore.creditInfo, with the fetch it came from
    isLoading,        \* creditStore.isLoading
    creditError,      \* creditStore.error is set
    fetches,          \* the getCredit requests in flight: for each, the number
                      \* of clearCredit runs before it started
    clears,           \* number of clearCredit runs so far
    \* ---- web UI: the ImageUploader component ----
    modelValue,       \* props.modelValue as the parent holds it: the kind of
                      \* each image
    maxFiles,         \* props.maxFiles
    disabled,         \* props.disabled
    uploaderError,    \* the error message of the component ("": none)
    urlInput,         \* what the URL field holds: "", a URL or something else
    showUrlForm,      \* the URL form is open
    isDragging,       \* files are dragged over the drop zone
    lastAddition      \* the addition last asked for: its files, the places then left

genVars == <<req, pc, i, uploads, returnedUri, uriCounter, uploadedImageIds,
             calls, creditWarned, overrideWarned, draft, draftResponse, poller,
             outcome>>
routeVars == <<rreq, rpc, rcall, rtoken>>
chatVars == <<config, body, pos, onMessageCalls, onErrorCalls, chatPc>>
fnVars == <<fnArg, fnResult>>
srvVars == <<child, testPc, elapsed, lastFetch, testResult>>
viewVars == <<messageInput, messages, isStreaming, currentStreamContent, abortStream, streams>>
layoutVars == <<sessionId, apiConfig, watched, layoutPc, generating, edits,
                creditInfo, isLoading, creditError, fetches, clears>>
uploaderVars == <<modelValue, maxFiles, disabled, uploaderError, urlInput, showUrlForm, isDragging, lastAddition>>
vars == <<genVars, routeVars, chatVars, fnVars, srvVars, viewVars, layoutVars, uploaderVars>>

\* what the actions of one part leave alone
notGen == <<routeVars, chatVars, fnVars, srvVars, viewVars, layoutVars, uploaderVars>>
notRoute == <<genVars, chatVars, fnVars, srvVars, viewVars, layoutVars, uploaderVars>>
notChat == <<genVars, routeVars, fnVars, srvVars, viewVars, layoutVars, uploaderVars>>
notFn == <<genVars, routeVars, chatVars, srvVars, viewVars, layoutVars, uploaderVars>>
notSrv == <<genVars, routeVars, chatVars, fnVars, viewVars, layoutVars, uploaderVars>>
notView == <<genVars, routeVars, chatVars, fnVars, srvVars, layoutVars, uploaderVars>>
notLayout == <<genVars, routeVars, chatVars, fnVars, srvVars, viewVars, uploaderVars>>
notUploader == <<genVars, routeVars, chatVars, fnVars, srvVars, viewVars, layoutVars>>

(***************************************************************************)
(* Bounds of the model.                                                    *)
(***************************************************************************)
\* input images of one generateImageComposition call in SpecGen
MaxImages == 2
\* items a poll tick may report beyond the poller's expectedItemCount
MaxExtraItems == 0

(***************************************************************************)
(* Prompts are sequences of tokens.  "lianxu", "huiben", "gushi" and       *)
(* "zhang" stand for the words 连续, 绘本, 故事 and 张; a digit is a     *)
(* one-character string; "x" is any other text.                            *)
(***************************************************************************)
Digits == {"0", "1", "2", "3", "4", "5", "6", "7", "8", "9"}

DigitVal(c) ==
    CASE c = "0" -> 0 [] c = "1" -> 1 [] c = "2" -> 2 [] c = "3" -> 3
      [] c = "4" -> 4 [] c = "5" -> 5 [] c = "6" -> 6 [] c = "7" -> 7
      [] c = "8" -> 8 [] c = "9" -> 9

\* value of a run of digits, read left to right
RECURSIVE DigitsVal(_)
DigitsVal(s) ==
    IF s = <<>> THEN 0
    ELSE 10 * DigitsVal(SubSeq(s, 1, Len(s) - 1)) + DigitVal(s[Len(s)])

includes(prompt, tok) == \E k \in 1..Len(prompt) : prompt[k] = tok

\* the places where /\d+张/ matches: a maximal start p and the 张 at q + 1
ZhangMatches(prompt) ==
    { m \in (1..Len(prompt)) \X (1..Len(prompt)) :
        /\ m[1] <= m[2]
        /\ m[2] < Len(prompt)
        /\ \A k \in m[1]..m[2] : prompt[k] \in Digits
        /\ prompt[m[2] + 1] = "zhang" }

testDigitsZhang(prompt) == ZhangMatches(prompt) # {}

\* prompt.match(/(\d+)张/)[1]: the leftmost match, its digits taken greedily
firstDigitsZhang(prompt) ==
    LET p == CHOOSE p \in 1..Len(prompt) :
                 /\ \E m \in ZhangMatches(prompt) : m[1] = p
                 /\ \A m \in ZhangMatches(prompt) : m[1] >= p
        q == CHOOSE q \in p..Len(prompt) : <<p, q>> \in ZhangMatches(prompt)
    IN  SubSeq(prompt, p, q)

isJimeng40MultiImage(model, prompt) ==
    /\ model = "jimeng-4.0"
    /\ \/ includes(prompt, "lianxu")
       \/ includes(prompt, "huiben")
       \/ includes(prompt, "gushi")
       \/ testDigitsZhang(prompt)

\* a count that ignores the number in the prompt
targetImageCountDefault(prompt) == 4

\* prompt.match(/(\d+)张/) ? parseInt(prompt.match(/(\d+)张/)[1]) : 4
targetImageCount(prompt) ==
    IF testDigitsZhang(prompt) THEN DigitsVal(firstDigitsZhang(prompt)) ELSE 4

(***************************************************************************)
(* Model and resolution mapping.  The tables IMAGE_MODEL_MAP,              *)
(* IMAGE_MODEL_MAP_US and RESOLUTION_OPTIONS live in api/consts/common.ts. *)
(***************************************************************************)
DEFAULT_MODEL == "jimeng-4.0"
DomesticModels == {"jimeng-4.0", "jimeng-3.0", "nanobanana"}
InternationalModels == {"jimeng-4.0", "nanobanana"}
Resolutions == {"1k", "2k", "4k"}
Ratios == {"1:1", "4:3", "3:4", "16:9", "9:16", "21:9", "9:21", "3:2", "2:3"}

modelMap(isInternational) ==
    IF isInternational THEN InternationalModels ELSE DomesticModels

\* a lookup that is strict for both regions
getModelThrowsAnyRegion(model, isInternational) ==
    model \notin modelMap(isInternational)

\* if (isInternational && !modelMap[model]) throw
getModelThrows(model, isInternational) ==
    isInternational /\ model \notin modelMap(isInternational)

getModel(model, isInternational) ==
    IF model \in modelMap(isInternational) THEN <<"mapped", model>>
    ELSE <<"mapped", DEFAULT_MODEL>>

getResolutionParamsThrows(resolution, ratio) ==
    resolution \notin Resolutions \/ ratio \notin Ratios

\* the model-independent part of the early exits of a call
paramsThrow(r) ==
    \/ getModelThrows(r.model, r.intl)
    \/ r.model # "nanobanana" /\ getResolutionParamsThrows(r.resolution, r.ratio)

resolutionType(r) == IF r.model = "nanobanana" THEN "2k" ELSE r.resolution

\* a number written in the code, or an entry of RESOLUTION_OPTIONS
Fixed(n) == [fixed |-> TRUE, n |-> n, resolution |-> "-", ratio |-> "-"]
FromTable(resolution, ratio) ==
    [fixed |-> FALSE, n |-> 0, resolution |-> resolution, ratio |-> ratio]

getResolutionParams(resolution, ratio) ==
    [width |-> FromTable(resolution, ratio),
     height |-> FromTable(resolution, ratio),
     image_ratio |-> FromTable(resolution, ratio),
     resolution_type |-> resolution]

\* if (_model === 'nanobanana')
overridesResolution(r) == r.model = "nanobanana"

\* a call that looks every model up in the table
coreSizeFromTable(r) == getResolutionParams(r.resolution, r.ratio)

\* width, height, image_ratio, resolution_type of the core parameters
coreSize(r) ==
    IF overridesResolution(r)
    THEN [width |-> Fixed(1024), height |-> Fixed(1024),
          image_ratio |-> Fixed(1), resolution_type |-> "2k"]
    ELSE getResolutionParams(r.resolution, r.ratio)

(***************************************************************************)
(* Errors.  An error is its kind (the exception class or the errcode of    *)
(* the APIException) and its message, a sequence of message parts.         *)
(***************************************************************************)
Running == [kind |-> "running", code |-> "-", message |-> <<>>, urls |-> 0]
Ok(n) == [kind |-> "ok", code |-> "-", message |-> <<>>, urls |-> n]
Err(code, message) ==
    [kind |-> "error", code |-> code, message |-> message, urls |-> 0]

\* new APIException(EX.API_IMAGE_GENERATION_FAILED, message)
APIException(message) == Err("API_IMAGE_GENERATION_FAILED", message)

(***************************************************************************)
(* processImageInput and uploadImageBuffer: the phases of one image.       *)
(*   read      fs.pathExists / fs.readFile of a local path                 *)
(*   download  fetch of a remote URL                                       *)
(*   token     POST /mweb/v1/get_upload_token                              *)
(*   apply     GET  ?Action=ApplyImageUpload                               *)
(*   put       POST of the bytes to the upload host                        *)
(*   commit    POST ?Action=CommitImageUpload                              *)
(***************************************************************************)
ImageKinds == {"url", "buffer", "path", "base64"}
UploadPhases == {"token", "apply", "put", "commit"}
BusyPhases == {"read", "download"} \cup UploadPhases

\* what the environment can answer in each phase
Responses(phase) ==
    CASE phase = "read"     -> {"ok", "not_exists"}
      [] phase = "download" -> {"ok", "network", "not_ok"}
      [] phase = "token"    -> {"ok", "request_failed", "missing_fields"}
      [] phase = "apply"    -> {"ok", "network", "not_ok", "error_payload",
                                "no_address"}
      [] phase = "put"      -> {"ok", "network", "not_ok"}
      [] phase = "commit"   -> {"ok", "network", "not_ok", "error_payload",
                                "no_results", "uri_status_4001"}
      [] OTHER              -> {}

\* the message of the Error thrown in a phase
UploadErrorMessage(phase, resp) ==
    CASE phase = "read"     -> <<"local file does not exist">>
      [] phase = "download" ->
            IF resp = "network" THEN <<"fetch failed">>
            ELSE <<"download image failed: status">>
      [] phase = "token" ->
            IF resp = "request_failed" THEN <<"get_upload_token: request failed">>
            ELSE <<"get upload token failed">>
      [] phase = "apply" ->
            CASE resp = "network"       -> <<"network request failed (imagex)">>
              [] resp = "not_ok"        -> <<"apply upload failed: status">>
              [] resp = "error_payload" -> <<"apply upload failed: error">>
              [] OTHER                  -> <<"get upload address failed">>
      [] phase = "put" ->
            IF resp = "network" THEN <<"image upload network request failed">>
            ELSE <<"image upload failed: status">>
      [] phase = "commit" ->
            CASE resp = "network"       -> <<"commit upload network request failed">>
              [] resp = "not_ok"        -> <<"commit upload failed: status">>
              [] resp = "error_payload" -> <<"commit upload failed: error">>
              [] resp = "no_results"    -> <<"commit response lacks results">>
              [] OTHER                  -> <<"upload status abnormal: UriStatus">>

FirstPhase(kind) ==
    CASE kind = "path" -> "read"
      [] kind = "url"  -> "download"
      [] OTHER         -> "token"

\* an uploader that sends the bytes without applying for the upload
NextPhaseSkipApply(phase) ==
    CASE phase = "read"     -> "token"
      [] phase = "download" -> "token"
      [] phase = "token"    -> "put"
      [] phase = "apply"    -> "put"
      [] phase = "put"      -> "commit"
      [] phase = "commit"   -> "done"

NextPhase(phase) ==
    CASE phase = "read"     -> "token"
      [] phase = "download" -> "token"
      [] phase = "token"    -> "apply"
      [] phase = "apply"    -> "put"
      [] phase = "put"      -> "commit"
      [] phase = "commit"   -> "done"

Idle == [phase |-> "idle", at |-> "-", resp |-> "-"]
InPhase(p) == [phase |-> p, at |-> "-", resp |-> "-"]
Failed(p, r) == [phase |-> "failed", at |-> p, resp |-> r]

\* a request that is sent again after it was sent
CountTwice(c, endpoint) ==
    IF endpoint \in DOMAIN c THEN [c EXCEPT ![endpoint] = @ + 2] ELSE c

\* one more request sent to the endpoint of a phase
Count(c, endpoint) ==
    IF endpoint \in DOMAIN c THEN [c EXCEPT ![endpoint] = @ + 1] ELSE c

NoCalls ==
    [credit |-> 0, receive |-> 0, download |-> 0, token |-> 0, apply |-> 0,
     put |-> 0, commit |-> 0, draft |-> 0, poll |-> 0]

\* a wrapper that drops the message of the cause
WrapUploadErrorBare(cause) == APIException(<<"image upload failed: ">>)

\* throw new APIException(..., `图片上传失败: ${error.message}`)
WrapUploadError(cause) == APIException(<<"image upload failed: ">> \o cause)

NImages == Len(req.images)

(***************************************************************************)
(* The calls of one run of SpecGen.                                        *)
(***************************************************************************)
Req(op, model, prompt, intl, resolution, ratio, images) ==
    [op |-> op, model |-> model, prompt |-> prompt, intl |-> intl,
     resolution |-> resolution, ratio |-> ratio, images |-> images]

KindPattern == <<"url", "path", "buffer", "base64">>

\* n input images, of kinds that rotate through KindPattern from offset o
ImagesOf(n, o) == [k \in 1..n |-> KindPattern[((k + o - 1) % 4) + 1]]

GenRequests ==
    { Req("generateImages", "jimeng-4.0", <<"x">>, FALSE, "2k", "1:1", <<>>),
      Req("generateImages", "jimeng-4.0", <<"x", "gushi">>, FALSE, "2k", "1:1", <<>>),
      Req("generateImages", "jimeng-3.0", <<"x">>, TRUE, "2k", "1:1", <<>>),
      Req("generateImages", "jimeng-3.0", <<"x">>, FALSE, "8k", "1:1", <<>>) }
    \cup
    { Req("generateImageComposition", "jimeng-4.0", <<"x">>, FALSE, "2k", "1:1",
          ImagesOf(n, o)) : n \in 0..MaxImages, o \in {0, 2} }

\* which of the three generation paths a call takes
PathOf(r) ==
    IF r.op = "generateImageComposition" THEN "composition"
    ELSE IF isJimeng40MultiImage(r.model, r.prompt) THEN "multi"
    ELSE "images"

NoDraft ==
    [generate_type |-> "-", model |-> <<>>, prompt |-> <<>>,
     resolution_type |-> "-", width |-> Fixed(0), height |-> Fixed(0),
     image_ratio |-> Fixed(0), ability_list |-> <<>>,
     prompt_placeholder_info_list |-> <<>>]

NoPoller ==
    [maxPollCount |-> 0, expectedItemCount |-> 0, pollCount |-> 0,
     lastItemCount |-> 0]

\* the parts of the system a specification does not exercise stay idle
RouteIdle == rreq = <<>> /\ rpc = "-" /\ rcall = <<>> /\ rtoken = FALSE

ChatIdle ==
    /\ config = FALSE
    /\ body = [lines |-> <<>>, terminated |-> TRUE]
    /\ pos = 0
    /\ onMessageCalls = <<>>
    /\ onErrorCalls = <<>>
    /\ chatPc = "-"

NoResult == [applied |-> FALSE, value |-> <<>>]
Result(value) == [applied |-> TRUE, value |-> value]

FnIdle == fnArg = <<>> /\ fnResult = NoResult

NoFetch == [url |-> "-", answered |-> FALSE, status |-> 0, body |-> "-"]

SrvIdle ==
    /\ child = [state |-> "none", exitCode |-> "-", killed |-> FALSE]
    /\ testPc = "-"
    /\ elapsed = 0
    /\ lastFetch = NoFetch
    /\ testResult = "-"

ViewIdle ==
    /\ messageInput = FALSE
    /\ messages = <<>>
    /\ isStreaming = FALSE
    /\ currentStreamContent = <<>>
    /\ abortStream = 0
    /\ streams = <<>>

LayoutIdle ==
    /\ sessionId = ""
    /\ apiConfig = [set |-> FALSE, sessionId |-> ""]
    /\ watched = FALSE
    /\ layoutPc = "-"
    /\ generating = FALSE
    /\ edits = 0
    /\ creditInfo = [set |-> FALSE, epoch |-> 0]
    /\ isLoading = FALSE
    /\ creditError = FALSE
    /\ fetches = <<>>
    /\ clears = 0

UploaderIdle ==
    /\ modelValue = <<>>
    /\ maxFiles = 0
    /\ disabled = FALSE
    /\ uploaderError = ""
    /\ urlInput = ""
    /\ showUrlForm = FALSE
    /\ isDragging = FALSE
    /\ lastAddition = [count |-> 0, places |-> 0]

\* the state at the entry of a call with one of the given arguments
InitCall(requests) ==
    /\ req \in requests
    /\ pc = "start"
    /\ i = 0
    /\ uploads = [k \in 1..Len(req.images) |-> Idle]
    /\ returnedUri = [k \in 1..Len(req.images) |-> 0]
    /\ uriCounter = 0
    /\ uploadedImageIds = <<>>
    /\ calls = NoCalls
    /\ creditWarned = FALSE
    /\ overrideWarned = FALSE
    /\ draft = NoDraft
    /\ draftResponse = "-"
    /\ poller = NoPoller
    /\ outcome = Running

InitGenVars == InitCall(GenRequests)

(***************************************************************************)
(* generateImages / generateImageComposition up to the credit check.       *)
(***************************************************************************)
\* parseRegionFromToken, getModel, getResolutionParams
Enter ==
    /\ pc = "start"
    /\ IF getModelThrows(req.model, req.intl)
       THEN /\ outcome' = Err("Error", <<"international: unsupported model">>)
            /\ pc' = "done"
            /\ UNCHANGED overrideWarned
       ELSE /\ overrideWarned' = overridesResolution(req)
            /\ IF paramsThrow(req)
               THEN /\ outcome' = Err("Error", <<"unsupported resolution or ratio">>)
                    /\ pc' = "done"
               ELSE /\ pc' = "credit"
                    /\ UNCHANGED outcome
    /\ UNCHANGED <<notGen, draftResponse, req,
                   i, uploads, returnedUri, uriCounter, uploadedImageIds,
                   calls, creditWarned, draft, poller>>

CreditOutcomes == {"positive", "zero_received", "query_failed", "receive_failed"}

\* generateImageComposition wraps the credit calls in try/catch,
\* generateImagesInternal does not
CreditFailureIsFatal(op) == op = "generateImages"

\* getCredit, and receiveCredit when totalCredit <= 0
Credit(c) ==
    /\ pc = "credit"
    /\ calls' = [calls EXCEPT
                   !.credit = @ + 1,
                   !.receive = IF c \in {"zero_received", "receive_failed"}
                               THEN @ + 1 ELSE @]
    /\ IF c \in {"query_failed", "receive_failed"}
       THEN IF CreditFailureIsFatal(req.op)
            THEN /\ outcome' = Err("upstream-error", <<"credit request failed">>)
                 /\ pc' = "done"
                 /\ UNCHANGED creditWarned
            ELSE /\ creditWarned' = TRUE
                 /\ pc' = IF req.op = "generateImageComposition"
                          THEN "upload_loop" ELSE "submit"
                 /\ UNCHANGED outcome
       ELSE /\ pc' = IF req.op = "generateImageComposition"
                     THEN "upload_loop" ELSE "submit"
            /\ UNCHANGED <<outcome, creditWarned>>
    /\ UNCHANGED <<notGen, overrideWarned, draftResponse, req,
                   i, uploads, returnedUri, uriCounter, uploadedImageIds,
                   draft, poller>>

(***************************************************************************)
(* The upload loop of generateImageComposition.                            *)
(***************************************************************************)
\* a loop that starts every upload without awaiting the previous one
CanStartUploadConcurrent(k) ==
    pc \in {"upload_loop", "upload_await"} /\ k <= NImages

\* for (let i = 0; i < images.length; i++) { ... await processImageInput(...)
CanStartUpload(k) == pc = "upload_loop" /\ k = i + 1 /\ k <= NImages

\* unshift in place of push
PushImageIdFront(ids, imageId) == <<imageId>> \o ids

\* uploadedImageIds.push(imageId)
PushImageId(ids, imageId) == Append(ids, imageId)

\* a catch that logs and goes on with the next image
AfterUploadFailureSkip(cause) ==
    [pc |-> "upload_loop", outcome |-> outcome, i |-> i + 1]

\* the catch of the loop body: log and throw the APIException
AfterUploadFailure(cause) ==
    [pc |-> "done", outcome |-> WrapUploadError(cause), i |-> i]

StartUpload(k) ==
    /\ CanStartUpload(k)
    /\ uploads[k].phase = "idle"
    /\ uploads' = [uploads EXCEPT ![k] = InPhase(FirstPhase(req.images[k]))]
    /\ calls' = Count(calls, FirstPhase(req.images[k]))
    /\ pc' = "upload_await"
    /\ UNCHANGED <<notGen, overrideWarned, draftResponse, req,
                   i, returnedUri, uriCounter, uploadedImageIds,
                   creditWarned, draft, poller, outcome>>

\* the answer to the request of the phase image k is in
UploadRespond(k, r) ==
    /\ pc \in {"upload_loop", "upload_await"}
    /\ uploads[k].phase \in BusyPhases
    /\ r \in Responses(uploads[k].phase)
    /\ LET phase == uploads[k].phase
           np == NextPhase(phase)
       IN  IF r # "ok"
           THEN LET after == AfterUploadFailure(UploadErrorMessage(phase, r))
                IN  /\ uploads' = [uploads EXCEPT ![k] = Failed(phase, r)]
                    /\ pc' = after.pc
                    /\ outcome' = after.outcome
                    /\ i' = after.i
                    /\ UNCHANGED <<returnedUri, uriCounter, uploadedImageIds, calls>>
           ELSE IF np # "done"
           THEN /\ uploads' = [uploads EXCEPT ![k] = InPhase(np)]
                /\ calls' = Count(calls, np)
                /\ UNCHANGED <<pc, outcome, i, returnedUri, uriCounter,
                               uploadedImageIds>>
           ELSE /\ uploads' = [uploads EXCEPT ![k] = InPhase("done")]
                /\ uriCounter' = uriCounter + 1
                /\ returnedUri' = [returnedUri EXCEPT ![k] = uriCounter + 1]
                /\ uploadedImageIds' = PushImageId(uploadedImageIds, uriCounter + 1)
                /\ i' = i + 1
                /\ pc' = "upload_loop"
                /\ UNCHANGED <<outcome, calls>>
    /\ UNCHANGED <<notGen, overrideWarned, draftResponse, req,
                   creditWarned, draft, poller>>

(***************************************************************************)
(* Draft submission: POST /mweb/v1/aigc_draft/generate.                    *)
(***************************************************************************)
\* ability_list: uploadedImageIds.map((imageId) => ({... uri: imageId}))
AbilityList(ids) ==
    [k \in 1..Len(ids) |-> [name |-> "byte_edit", image_uri |-> ids[k]]]

\* prompt_placeholder_info_list: uploadedImageIds.map((_, index) => ...)
PlaceholderList(ids) == [k \in 1..Len(ids) |-> [ability_index |-> k - 1]]

BuildDraft(r, ids) ==
    IF r.op = "generateImageComposition"
    THEN [generate_type |-> "blend",
          model |-> getModel(r.model, r.intl),
          prompt |-> <<"##">> \o r.prompt,
          resolution_type |-> coreSize(r).resolution_type,
          width |-> coreSize(r).width,
          height |-> coreSize(r).height,
          image_ratio |-> coreSize(r).image_ratio,
          ability_list |-> AbilityList(ids),
          prompt_placeholder_info_list |-> PlaceholderList(ids)]
    ELSE [generate_type |-> "generate",
          model |-> getModel(r.model, r.intl),
          prompt |-> r.prompt,
          resolution_type |-> coreSize(r).resolution_type,
          width |-> coreSize(r).width,
          height |-> coreSize(r).height,
          image_ratio |-> coreSize(r).image_ratio,
          ability_list |-> <<>>,
          prompt_placeholder_info_list |-> <<>>]

\* the poller settings of the three paths
MaxPollCountComposition == 900
ExpectedItemsComposition == 1
MaxPollCountImages == 900
ExpectedItemsImages == 4
MaxPollCountMulti == 600

\* the multi-image path polling with the settings of the plain path
PollerConfigSame(r) ==
    IF PathOf(r) = "composition"
    THEN [maxPollCount |-> MaxPollCountComposition,
          expectedItemCount |-> ExpectedItemsComposition]
    ELSE [maxPollCount |-> MaxPollCountImages,
          expectedItemCount |-> ExpectedItemsImages]

PollerConfig(r) ==
    CASE PathOf(r) = "composition" ->
            [maxPollCount |-> MaxPollCountComposition,
             expectedItemCount |-> ExpectedItemsComposition]
      [] PathOf(r) = "multi" ->
            [maxPollCount |-> MaxPollCountMulti,
             expectedItemCount |-> targetImageCount(r.prompt)]
      [] OTHER ->
            [maxPollCount |-> MaxPollCountImages,
             expectedItemCount |-> ExpectedItemsImages]

NewPoller(r) ==
    [maxPollCount |-> PollerConfig(r).maxPollCount,
     expectedItemCount |-> PollerConfig(r).expectedItemCount,
     pollCount |-> 0, lastItemCount |-> 0]

\* shapes of the answer of aigc_draft/generate
DraftResponses == {"with_id", "aigc_without_id", "no_aigc_data", "request_failed"}

\* aigc_data?.history_record_id (composition, multi) against
\* aigc_data.history_record_id (generateImagesInternal)
UsesOptionalChaining(path) == path # "images"

\* what happens when the draft request fails or its answer carries no id
DraftFailure(path, resp) ==
    CASE resp = "request_failed" ->
            Err("upstream-error", <<"aigc_draft/generate failed">>)
      [] resp = "no_aigc_data" /\ ~UsesOptionalChaining(path) ->
            Err("TypeError", <<"cannot read properties of undefined">>)
      [] OTHER -> APIException(<<"record id missing">>)

\* a call that submits the draft again after its poller gave up
AfterPollFailureResubmit == "submit"

\* where a call goes after its poller gave up
AfterPollFailure == "done"

SubmitDraft(resp) ==
    /\ \/ pc = "submit"
       \/ pc = "upload_loop" /\ i >= NImages
    /\ resp \in DraftResponses
    /\ draft' = BuildDraft(req, uploadedImageIds)
    /\ draftResponse' = resp
    /\ calls' = Count(calls, "draft")
    /\ IF resp = "with_id"
       THEN /\ poller' = NewPoller(req)
            /\ pc' = "poll"
            /\ UNCHANGED outcome
       ELSE /\ outcome' = DraftFailure(PathOf(req), resp)
            /\ pc' = "done"
            /\ UNCHANGED poller
    /\ UNCHANGED <<notGen, overrideWarned, req, i, uploads, returnedUri, uriCounter,
                   uploadedImageIds,
                   creditWarned>>

(***************************************************************************)
(* SmartPoller.poll (lib/smart-poller.ts) with the tick closure of the     *)
(* caller: POST /mweb/v1/get_history_by_ids.                               *)
(***************************************************************************)
StatusCombos ==
    { <<"processing", "none">>, <<"processing", "transient">>,
      <<"processing", "fatal">>, <<"success", "none">>, <<"failed", "fatal">> }

Tick(t, status, failCode, itemCount, finishTime) ==
    [t |-> t, status |-> status, failCode |-> failCode,
     itemCount |-> itemCount, finishTime |-> finishTime]

\* what one tick can give: a task record, a transport error, or an answer
\* without the history id (the closure throws)
TickResults(expected) ==
    { Tick("ok", sc[1], sc[2], n, ft) :
        sc \in StatusCombos, n \in 0..(expected + MaxExtraItems), ft \in {0, 1} }
    \cup { Tick("transport", "-", "-", 0, 0), Tick("missing", "-", "-", 0, 0) }

\* the poller after a tick
Observe(p, t) ==
    [p EXCEPT
       !.pollCount = @ + 1,
       !.lastItemCount = IF t.t = "ok" /\ t.itemCount > @ THEN t.itemCount ELSE @]

\* iterations >= maxPollCount
PollBudgetSpent(p) == p.pollCount >= p.maxPollCount

\* The verdicts the poller can reach on a tick: "continue", "success" or an
\* error kind.  The stall threshold and the number of transport errors that
\* are retried are settings of the poller: a tick without progress may or
\* may not exceed the one, a transport error may or may not exceed the other.
Verdicts(p, t) ==
    LET q == Observe(p, t)
    IN  CASE t.t = "missing" -> {"record-missing"}
          [] t.t = "transport" ->
                {"transport"} \cup
                (IF PollBudgetSpent(q) THEN {"poll-timeout"} ELSE {"continue"})
          [] OTHER ->
                IF t.itemCount < p.lastItemCount THEN {"poll-protocol-violation"}
                ELSE IF /\ t.status = "success"
                        /\ (t.itemCount >= p.expectedItemCount \/ t.finishTime > 0)
                THEN {"success"}
                ELSE IF t.status = "failed" \/ t.failCode = "fatal"
                THEN {"poll-remote-failed"}
                ELSE IF PollBudgetSpent(q) THEN {"poll-timeout"}
                ELSE IF t.itemCount = p.lastItemCount /\ t.finishTime = 0
                THEN {"continue", "poll-stall"}
                ELSE {"continue"}

PollError(v) ==
    IF v = "record-missing" THEN APIException(<<"record missing">>)
    ELSE Err(v, <<"polling ended">>)

PollTick(t, v) ==
    /\ pc = "poll"
    /\ ~PollBudgetSpent(poller)
    /\ calls' = Count(calls, "poll")
    /\ poller' = Observe(poller, t)
    /\ CASE v = "continue" -> UNCHANGED <<pc, outcome>>
         [] v = "success" -> /\ pc' = "done"
                             /\ outcome' = Ok(t.itemCount)
         [] OTHER -> /\ pc' = AfterPollFailure
                     /\ outcome' = PollError(v)
    /\ UNCHANGED <<notGen, overrideWarned, draftResponse, req,
                   i, uploads, returnedUri, uriCounter,
                   uploadedImageIds, creditWarned, draft>>

NextGen ==
    \/ Enter
    \/ \E c \in CreditOutcomes : Credit(c)
    \/ \E k \in 1..NImages : StartUpload(k)
    \/ \E k \in 1..NImages : \E r \in Responses(uploads[k].phase) : UploadRespond(k, r)
    \/ \E resp \in DraftResponses : SubmitDraft(resp)
    \/ \E t \in TickResults(poller.expectedItemCount) :
          \E v \in Verdicts(poller, t) : PollTick(t, v)

InitGen ==
    /\ InitGenVars
    /\ RouteIdle
    /\ ChatIdle
    /\ FnIdle
    /\ SrvIdle
    /\ ViewIdle
    /\ LayoutIdle
    /\ UploaderIdle

SpecGen == InitGen /\ [][NextGen]_vars

(***************************************************************************)
(* SpecDraft: a call up to the answer of aigc_draft/generate, over a wider *)
(* range of arguments.                                                     *)
(***************************************************************************)
\* longest prompt, in tokens
MaxPromptLen == 3
\* input images of one generateImageComposition call in SpecDraft
MaxDraftImages == 1

PromptTokens == {"x", "lianxu", "huiben", "gushi", "zhang", "6", "0"}

RECURSIVE Prompts(_)
Prompts(n) ==
    IF n = 0 THEN {<<>>}
    ELSE LET shorter == Prompts(n - 1)
         IN  shorter \cup { Append(q, t) : q \in {x \in shorter : Len(x) = n - 1},
                                            t \in PromptTokens }

ModelNames == {"jimeng-4.0", "jimeng-3.0", "nanobanana", "other-model"}
ResolutionNames == {"1k", "2k", "4k", "8k"}
RatioNames == {"1:1", "21:9", "5:4"}

DraftRequests ==
    { Req("generateImages", m, <<"x">>, intl, res, ratio, <<>>) :
        m \in ModelNames, intl \in BOOLEAN, res \in ResolutionNames,
        ratio \in RatioNames }
    \cup
    UNION { { Req("generateImageComposition", m, <<"x">>, intl, res, ratio,
                  ImagesOf(n, 0)) :
                m \in ModelNames, intl \in BOOLEAN, res \in ResolutionNames,
                ratio \in RatioNames } : n \in 0..MaxDraftImages }
    \cup
    { Req("generateImages", m, q, FALSE, "2k", "1:1", <<>>) :
        m \in {"jimeng-4.0", "jimeng-3.0"}, q \in Prompts(MaxPromptLen) }

NextDraft ==
    \/ Enter
    \/ \E c \in CreditOutcomes : Credit(c)
    \/ \E k \in 1..NImages : StartUpload(k)
    \/ \E k \in 1..NImages : \E r \in Responses(uploads[k].phase) : UploadRespond(k, r)
    \/ \E resp \in DraftResponses : SubmitDraft(resp)

InitDraft ==
    /\ InitCall(DraftRequests)
    /\ RouteIdle
    /\ ChatIdle
    /\ FnIdle
    /\ SrvIdle
    /\ ViewIdle
    /\ LayoutIdle
    /\ UploaderIdle

SpecDraft == InitDraft /\ [][NextDraft]_vars

(***************************************************************************)
(* Properties of the generation pipeline (checked under SpecGen).          *)
(***************************************************************************)
Busy(k) == uploads[k].phase \in BusyPhases
Uploading(k) == uploads[k].phase \in UploadPhases

\* C1: in generateImageComposition at most one image is being processed or
\* uploaded (get-token, apply, PUT, commit) at any moment, and image k + 1 is
\* started only after the upload of image k has returned its Uri and the Uri
\* was pushed to uploadedImageIds.
C1_SequentialUploads ==
    /\ Cardinality({k \in 1..NImages : Busy(k)}) <= 1
    /\ \A k \in 1..NImages :
          (k > 1 /\ uploads[k].phase # "idle") =>
              /\ uploads[k - 1].phase = "done"
              /\ returnedUri[k - 1] # 0
              /\ Len(uploadedImageIds) >= k - 1
              /\ uploadedImageIds[k - 1] = returnedUri[k - 1]

\* the second image is being uploaded
C1_Witness == NImages >= 2 /\ uploads[2].phase = "commit"

\* C2: the draft of a composition with N input images has exactly N
\* ability_list entries, entry k carrying the Uri the upload of the k-th
\* input image returned, and N prompt_placeholder_info_list entries, entry k
\* (0-based) having ability_index k.
C2_DraftPositional ==
    draft.generate_type = "blend" =>
        /\ Len(draft.ability_list) = NImages
        /\ Len(draft.prompt_placeholder_info_list) = NImages
        /\ \A k \in 1..NImages :
              /\ returnedUri[k] # 0
              /\ draft.ability_list[k].image_uri = returnedUri[k]
              /\ draft.prompt_placeholder_info_list[k].ability_index = k - 1
              /\ draft.prompt_placeholder_info_list[k].ability_index \in 0..(NImages - 1)

\* a draft built from two uploaded images
C2_Witness ==
    /\ draft.generate_type = "blend"
    /\ NImages >= 2
    /\ calls.draft = 1
    /\ returnedUri[1] # returnedUri[2]

\* C3: when the upload of an input image fails, the call has ended with an
\* error, no later input image has been started, and no aigc_draft/generate
\* request has been made (nor is one made afterwards: the call has ended).
C3_UploadFailureStops ==
    \A k \in 1..NImages :
        uploads[k].phase = "failed" =>
            /\ pc = "done"
            /\ outcome.kind = "error"
            /\ calls.draft = 0
            /\ draftResponse = "-"
            /\ \A j \in 1..NImages : j > k => uploads[j].phase = "idle"
            /\ \A j \in 1..NImages : j # k => uploads[j].phase \in {"idle", "done"}

\* the commit of the first of two images answered UriStatus 4001
C3_Witness ==
    /\ NImages >= 2
    /\ uploads[1] = Failed("commit", "uri_status_4001")
    /\ pc = "done"

\* the tick budget the source gives the poller of each path
MaxTicks(path) ==
    CASE path = "composition" -> MaxPollCountComposition
      [] path = "multi"       -> MaxPollCountMulti
      [] OTHER                -> MaxPollCountImages

Polled == calls.poll > 0

C5_CreditFailureNotFatal ==
    ~(pc = "done" /\ outcome = Err("upstream-error", <<"credit request failed">>))

UploadKind(phase) ==
    CASE phase = "token"  -> "upload-token"
      [] phase = "apply"  -> "upload-apply"
      [] phase = "put"    -> "upload-put"
      [] phase = "commit" -> "upload-commit"
      [] OTHER            -> "-"

C7_MissingIdIsDraftSubmitError ==
    draftResponse \in {"aigc_without_id", "no_aigc_data"} =>
        /\ pc = "done"
        /\ outcome = APIException(<<"record id missing">>)
        /\ calls.poll = 0

\* C8: a call sends at most one aigc_draft/generate request, whatever the
\* outcome of polling.
C8_SingleDraft ==
    /\ calls.draft <= 1
    /\ (Polled \/ pc = "poll") => calls.draft = 1

\* a generation that timed out, with its one draft request
C8_Witness ==
    /\ pc = "done"
    /\ outcome.code \in {"poll-timeout", "poll-stall", "poll-remote-failed"}
    /\ calls.draft = 1

(***************************************************************************)
(* The routes.  Request.validate (lib/request/Request.ts) throws when the  *)
(* checker of a field answers false.                                       *)
(***************************************************************************)
\* most images a body or form of the model carries
RouteMaxImages == 11
\* longest duration string of the model
MaxStringLen == 3
\* largest whole number of seconds a JSON duration of the model has
MaxDurationInput == 16
\* most entries of file_paths / filePaths, and most file fields, of the model
MaxFilePaths == 3
\* most files one file field of the model carries
MaxFilesPerField == 3

\* "最多支持10张输入图片"
MaxInputImages == 10
\* the duration range of the validator, and the default of the handler
MinDuration == 4
MaxDuration == 15
DefaultDuration == 5

\* numbers: whole part v, plus one half when half; or NaN
Num(v, half) == [nan |-> FALSE, v |-> v, half |-> half]
NaN == [nan |-> TRUE, v |-> 0, half |-> FALSE]

Chars == {"1", "3", "4", "5", "6", ".", "a", " "}

RECURSIVE StringsUpTo(_)
StringsUpTo(n) ==
    IF n = 0 THEN {<<>>}
    ELSE LET shorter == StringsUpTo(n - 1)
         IN  shorter \cup { Append(s, c) : s \in {x \in shorter : Len(x) = n - 1},
                                            c \in Chars }

\* s without its leading blanks
RECURSIVE TrimStart(_)
TrimStart(s) ==
    IF s # <<>> /\ Head(s) = " " THEN TrimStart(Tail(s)) ELSE s

\* the longest prefix of s made of digits
RECURSIVE DigitPrefix(_)
DigitPrefix(s) ==
    IF s # <<>> /\ Head(s) \in Digits
    THEN <<Head(s)>> \o DigitPrefix(Tail(s))
    ELSE <<>>

\* parseInt(s): leading white space is skipped, the digits that follow are
\* read, whatever comes after them is ignored; NaN when there is no digit
parseInt(s) ==
    LET d == DigitPrefix(TrimStart(s))
    IN  IF d = <<>> THEN NaN ELSE Num(DigitsVal(d), FALSE)

\* Number.isInteger
isInteger(x) == ~x.nan /\ ~x.half

\* values of body.duration
Undefined == [t |-> "undefined", num |-> NaN, str |-> <<>>]
NumberValue(x) == [t |-> "number", num |-> x, str |-> <<>>]
StringValue(s) == [t |-> "string", num |-> NaN, str |-> s]
OtherValue == [t |-> "other", num |-> NaN, str |-> <<>>]

\* the checker of body.duration
DurationInRange(num) ==
    isInteger(num) /\ num.v >= MinDuration /\ num.v <= MaxDuration

validDuration(v, isMultiPart) ==
    IF v.t = "undefined" THEN TRUE
    ELSE IF isMultiPart /\ v.t = "string" THEN DurationInRange(parseInt(v.str))
    ELSE IF v.t = "number" THEN DurationInRange(v.num)
    ELSE FALSE

\* duration = 5 by default; parseInt of a multipart string
finalDuration(v, isMultiPart) ==
    IF v.t = "undefined" THEN Num(DefaultDuration, FALSE)
    ELSE IF isMultiPart /\ v.t = "string" THEN parseInt(v.str)
    ELSE v.num

\* the checker of body.file_paths and of body.filePaths
\* (-1: the field is absent)
validFilePaths(n) == n = -1 \/ n <= 2

\* filePaths.length > 0 ? filePaths : file_paths
finalFilePaths(file_paths, filePaths) ==
    LET a == IF file_paths = -1 THEN 0 ELSE file_paths
        b == IF filePaths = -1 THEN 0 ELSE filePaths
    IN  IF b > 0 THEN b ELSE a

(***************************************************************************)
(* The requests of one run of SpecRoute.                                   *)
(*   images.shape  "absent"     no images field / no files.images          *)
(*                 "single"     files.images is one file object            *)
(*                 "array"      an array of images.n entries               *)
(*                 "not_array"  body.images is something else              *)
(*   images.bad    "none", or what is wrong with one entry of a JSON array *)
(*   fieldsOk      the other validated fields and the authorization header *)
(*                 pass their checkers                                     *)
(*   bodyKeys      Object.keys(request.body), the validated fields and     *)
(*                 images left out                                         *)
(*   files         request.files: per file field of the form, the number   *)
(*                 of files it carries (a field with several files is an   *)
(*                 array, as files.images is in /compositions)             *)
(***************************************************************************)
Images(shape, n, bad) == [shape |-> shape, n |-> n, bad |-> bad]
NoImages == Images("absent", 0, "none")

RReq(route, isMultiPart, bodyKeys, fieldsOk, images, duration, file_paths, filePaths, files) ==
    [route |-> route, isMultiPart |-> isMultiPart, bodyKeys |-> bodyKeys,
     fieldsOk |-> fieldsOk, images |-> images, duration |-> duration,
     file_paths |-> file_paths, filePaths |-> filePaths, files |-> files]

BadEntries == {"none", "not_string_or_object", "object_without_field"}

MultipartImages ==
    {NoImages, Images("single", 1, "none")}
    \cup { Images("array", n, "none") : n \in 0..RouteMaxImages }

JsonImages ==
    {NoImages, Images("not_array", 0, "none")}
    \cup { Images("array", n, b) : n \in 0..RouteMaxImages, b \in BadEntries }

\* keys a body may have besides the validated ones
ExtraKeys == {"size", "width", "height", "seed"}

CompositionRequests ==
    { RReq("compositions", TRUE, u, f, im, Undefined, -1, -1, <<>>) :
        u \in SUBSET ExtraKeys, f \in BOOLEAN, im \in MultipartImages }
    \cup
    { RReq("compositions", FALSE, u, f, im, Undefined, -1, -1, <<>>) :
        u \in SUBSET ExtraKeys, f \in BOOLEAN, im \in JsonImages }

GenerationRequests ==
    { RReq("generations", FALSE, u, f, NoImages, Undefined, -1, -1, <<>>) :
        u \in SUBSET ExtraKeys, f \in BOOLEAN }

JsonDurations ==
    {Undefined, OtherValue}
    \cup { NumberValue(Num(v, h)) : v \in 0..MaxDurationInput, h \in BOOLEAN }
    \cup { StringValue(s) : s \in StringsUpTo(1) }

\* the fields of a form are strings
MultipartDurations ==
    {Undefined} \cup { StringValue(s) : s \in StringsUpTo(MaxStringLen) }

FilePathCounts == -1..MaxFilePaths

RECURSIVE FileFields(_)
FileFields(n) ==
    IF n = 0 THEN {<<>>}
    ELSE LET shorter == FileFields(n - 1)
         IN  shorter \cup { Append(f, k) : f \in {x \in shorter : Len(x) = n - 1},
                                            k \in 1..MaxFilesPerField }

\* a JSON request has no request.files
FilesOf(isMultiPart) == IF isMultiPart THEN FileFields(MaxFilePaths) ELSE {<<>>}

VideoRequests ==
    { RReq("videos", FALSE, {}, f, NoImages, d, -1, -1, <<>>) :
        f \in BOOLEAN, d \in JsonDurations }
    \cup
    { RReq("videos", TRUE, {}, f, NoImages, d, -1, -1, <<>>) :
        f \in BOOLEAN, d \in MultipartDurations }
    \cup
    UNION { { RReq("videos", m, {}, TRUE, NoImages, Undefined, a, b, f) :
                a \in FilePathCounts, b \in FilePathCounts, f \in FilesOf(m) } :
            m \in BOOLEAN }

NoCall ==
    [fn |-> "-", images |-> 0, duration |-> NaN, filePaths |-> 0, files |-> <<>>,
     error |-> "-"]

Reject(error) ==
    /\ rpc' = "rejected"
    /\ rcall' = [rcall EXCEPT !.error = error]

(***************************************************************************)
(* POST /v1/images/compositions                                            *)
(***************************************************************************)
\* a filter that forgets height
foundUnsupportedNoHeight(r) == {"size", "width"} \cap r.bodyKeys

\* unsupportedParams.filter(param => bodyKeys.includes(param))
foundUnsupported(r) == {"size", "width", "height"} \cap r.bodyKeys

\* foundUnsupported.length > 0, in /generations and in /compositions
CheckUnsupported ==
    /\ rpc = "received"
    /\ rreq.route \in {"compositions", "generations"}
    /\ IF foundUnsupported(rreq) # {}
       THEN Reject("unsupported_params")
       ELSE rpc' = "validate" /\ UNCHANGED rcall
    /\ UNCHANGED <<notRoute, rreq, rtoken>>

\* the two validate chains; only the JSON chain checks body.images
compositionFieldsValid(r) ==
    /\ r.fieldsOk
    /\ r.isMultiPart \/ r.images.shape = "array"

ValidateComposition ==
    /\ rpc = "validate"
    /\ rreq.route = "compositions"
    /\ IF compositionFieldsValid(rreq)
       THEN rpc' = "images" /\ UNCHANGED rcall
       ELSE Reject("validation")
    /\ UNCHANGED <<notRoute, rreq, rtoken>>

\* imageFiles.length / bodyImages.length
imagesLength(r) ==
    IF r.images.shape = "single" THEN 1
    ELSE IF r.images.shape = "array" THEN r.images.n
    ELSE 0

\* a limit that lets one image more through
TooManyImagesOffByOne(n) == n > MaxInputImages + 1

\* imageFiles.length > 10, bodyImages.length > 10
TooManyImages(n) == n > MaxInputImages

\* the error the collection of the images throws ("-": none)
collectError(r) ==
    IF r.isMultiPart
    THEN IF r.images.shape = "absent" THEN "missing_images_field"
         ELSE IF imagesLength(r) = 0 THEN "no_images"
         ELSE IF TooManyImages(imagesLength(r)) THEN "too_many_images"
         ELSE "-"
    ELSE IF r.images.shape # "array" \/ imagesLength(r) = 0 THEN "no_images"
         ELSE IF TooManyImages(imagesLength(r)) THEN "too_many_images"
         ELSE IF r.images.bad # "none" THEN r.images.bad
         ELSE "-"

CollectImages ==
    /\ rpc = "images"
    /\ rreq.route = "compositions"
    /\ IF collectError(rreq) = "-"
       THEN rpc' = "token" /\ UNCHANGED rcall
       ELSE Reject(collectError(rreq))
    /\ UNCHANGED <<notRoute, rreq, rtoken>>

\* await generateImageComposition(model, prompt, images, {...}, token)
CallGenerateImageComposition ==
    /\ rpc = "call"
    /\ rreq.route = "compositions"
    /\ rcall' = [rcall EXCEPT !.fn = "generateImageComposition",
                              !.images = imagesLength(rreq)]
    /\ rpc' = "called"
    /\ UNCHANGED <<notRoute, rreq, rtoken>>

(***************************************************************************)
(* POST /v1/images/generations                                             *)
(***************************************************************************)
ValidateGeneration ==
    /\ rpc = "validate"
    /\ rreq.route = "generations"
    /\ IF rreq.fieldsOk
       THEN rpc' = "token" /\ UNCHANGED rcall
       ELSE Reject("validation")
    /\ UNCHANGED <<notRoute, rreq, rtoken>>

\* await generateImages(model, prompt, {...}, token)
CallGenerateImages ==
    /\ rpc = "call"
    /\ rreq.route = "generations"
    /\ rcall' = [rcall EXCEPT !.fn = "generateImages"]
    /\ rpc' = "called"
    /\ UNCHANGED <<notRoute, rreq, rtoken>>

(***************************************************************************)
(* All routes: tokenSplit(request.headers.authorization), _.sample(tokens) *)
(***************************************************************************)
SelectToken ==
    /\ rpc = "token"
    /\ rtoken' = TRUE
    /\ rpc' = "call"
    /\ UNCHANGED <<notRoute, rreq, rcall>>

(***************************************************************************)
(* POST /v1/videos/generations                                             *)
(***************************************************************************)
videoFieldsValid(r) ==
    /\ r.fieldsOk
    /\ validDuration(r.duration, r.isMultiPart)
    /\ validFilePaths(r.file_paths)
    /\ validFilePaths(r.filePaths)

ValidateVideo ==
    /\ rpc = "received"
    /\ rreq.route = "videos"
    /\ IF videoFieldsValid(rreq)
       THEN rpc' = "files" /\ UNCHANGED rcall
       ELSE Reject("validation")
    /\ UNCHANGED <<notRoute, rreq, rtoken>>

\* _.values(request.files): one entry per file field
uploadedFiles(r) == r.files

\* uploadedFiles.length > 2
CheckUploadedFiles ==
    /\ rpc = "files"
    /\ IF Len(uploadedFiles(rreq)) > 2
       THEN Reject("too_many_files")
       ELSE rpc' = "token" /\ UNCHANGED rcall
    /\ UNCHANGED <<notRoute, rreq, rtoken>>

\* await generateVideo(model, prompt, {..., duration: finalDuration,
\*                     filePaths: finalFilePaths, files: request.files}, token)
CallGenerateVideo ==
    /\ rpc = "call"
    /\ rreq.route = "videos"
    /\ rcall' = [rcall EXCEPT
                   !.fn = "generateVideo",
                   !.duration = finalDuration(rreq.duration, rreq.isMultiPart),
                   !.filePaths = finalFilePaths(rreq.file_paths, rreq.filePaths),
                   !.files = rreq.files]
    /\ rpc' = "called"
    /\ UNCHANGED <<notRoute, rreq, rtoken>>

NextRoute ==
    \/ CheckUnsupported
    \/ ValidateComposition
    \/ CollectImages
    \/ CallGenerateImageComposition
    \/ ValidateGeneration
    \/ CallGenerateImages
    \/ SelectToken
    \/ ValidateVideo
    \/ CheckUploadedFiles
    \/ CallGenerateVideo

\* no generation call is running
GenIdle ==
    /\ req = Req("-", "-", <<>>, FALSE, "-", "-", <<>>)
    /\ pc = "-"
    /\ i = 0
    /\ uploads = <<>>
    /\ returnedUri = <<>>
    /\ uriCounter = 0
    /\ uploadedImageIds = <<>>
    /\ calls = NoCalls
    /\ creditWarned = FALSE
    /\ overrideWarned = FALSE
    /\ draft = NoDraft
    /\ draftResponse = "-"
    /\ poller = NoPoller
    /\ outcome = Running

InitRoute ==
    /\ rreq \in CompositionRequests \cup GenerationRequests \cup VideoRequests
    /\ rpc = "received"
    /\ rcall = NoCall
    /\ rtoken = FALSE
    /\ GenIdle
    /\ ChatIdle
    /\ FnIdle
    /\ SrvIdle
    /\ ViewIdle
    /\ LayoutIdle
    /\ UploaderIdle

SpecRoute == InitRoute /\ [][NextRoute]_vars

(***************************************************************************)
(* Properties of the routes (checked under SpecRoute).                     *)
(***************************************************************************)
\* the handler has left the checks of the request behind
Settled == rpc \in {"rejected", "token", "call", "called"}

\* everything but the number of images is in order
WellFormedComposition(r) ==
    /\ r.route = "compositions"
    /\ foundUnsupported(r) = {}
    /\ r.fieldsOk
    /\ r.images.shape \in {"single", "array"}
    /\ r.images.bad = "none"

\* C9: POST /v1/images/compositions, JSON or multipart, goes on to the token
\* selection and to generateImageComposition only with 1 to 10 input images;
\* a request with 0 or with 11 or more images is rejected with no token
\* selected and no controller call (hence no upload and no draft) made, and
\* a request that is otherwise in order with 1 to 10 images is not rejected.
C9_ImageCountGate ==
    rreq.route = "compositions" =>
        /\ (rtoken \/ rcall.fn # "-") =>
               /\ imagesLength(rreq) >= 1
               /\ imagesLength(rreq) <= 10
        /\ rcall.fn = "generateImageComposition" =>
               rcall.images = imagesLength(rreq)
        /\ (Settled /\ (imagesLength(rreq) = 0 \/ imagesLength(rreq) >= 11)) =>
               /\ rpc = "rejected"
               /\ rcall.error # "-"
               /\ ~rtoken
               /\ rcall.fn = "-"
        /\ (rpc = "rejected" /\ WellFormedComposition(rreq)) =>
               (imagesLength(rreq) = 0 \/ imagesLength(rreq) >= 11)

\* 11 images in an otherwise good request: rejected for their number
C9_Witness ==
    /\ WellFormedComposition(rreq)
    /\ imagesLength(rreq) = 11
    /\ rpc = "rejected"
    /\ rcall.error = "too_many_images"
    /\ ~rtoken

\* s reads as an integer, as Number(s) does: digits, a bare "." after them
\* and blanks around them allowed
IsIntegerNumeral(s) ==
    LET t == TrimStart(s)
        d == DigitPrefix(t)
        rest == SubSeq(t, Len(d) + 1, Len(t))
        tail == IF rest # <<>> /\ Head(rest) = "." THEN Tail(rest) ELSE rest
    IN  /\ d # <<>>
        /\ \A k \in 1..Len(tail) : tail[k] = " "

\* the duration the client supplied is an integer from 4 to 15, or absent
SuppliedDurationOk(r) ==
    CASE r.duration.t = "undefined" -> TRUE
      [] r.duration.t = "number" ->
             /\ isInteger(r.duration.num)
             /\ r.duration.num.v >= 4
             /\ r.duration.num.v <= 15
      [] r.duration.t = "string" ->
             /\ r.isMultiPart
             /\ IsIntegerNumeral(r.duration.str)
             /\ parseInt(r.duration.str).v >= 4
             /\ parseInt(r.duration.str).v <= 15
      [] OTHER -> FALSE

\* C10: POST /v1/videos/generations calls generateVideo only with an integer
\* duration from 4 to 15 (5 when absent, a multipart string parsed first),
\* and a request whose duration is 3, 16, not an integer or not numeric is
\* rejected by validation without a call of generateVideo.
C10_DurationGate ==
    rreq.route = "videos" =>
        /\ rcall.fn = "generateVideo" =>
               /\ isInteger(rcall.duration)
               /\ rcall.duration.v >= 4
               /\ rcall.duration.v <= 15
        /\ (rpc # "received" /\ ~SuppliedDurationOk(rreq)) =>
               /\ rpc = "rejected"
               /\ rcall.error = "validation"
               /\ rcall.fn = "-"

\* number of files in request.files
RECURSIVE TotalFiles(_)
TotalFiles(files) ==
    IF files = <<>> THEN 0 ELSE Head(files) + TotalFiles(Tail(files))

\* C11: POST /v1/videos/generations rejects a request whose file_paths or
\* filePaths array has 3 or more entries, or that carries more than 2
\* uploaded files, before generateVideo is called.
C11_FrameLimit ==
    (/\ rreq.route = "videos"
     /\ rpc \notin {"received", "files"}
     /\ \/ rreq.file_paths >= 3
        \/ rreq.filePaths >= 3
        \/ TotalFiles(rreq.files) > 2) =>
        /\ rpc = "rejected"
        /\ rcall.fn = "-"
        /\ ~rtoken

\* C12: a POST to /v1/images/generations or /v1/images/compositions whose
\* body has a size, width or height key is rejected by the first step of the
\* handler: no token is selected, no controller is called, and so no credit
\* query, upload, draft submission or poll is made for it.
C12_UnsupportedParamsFirst ==
    (/\ rreq.route \in {"generations", "compositions"}
     /\ rreq.bodyKeys \cap {"size", "width", "height"} # {}
     /\ rpc # "received") =>
        /\ rpc = "rejected"
        /\ rcall.error = "unsupported_params"
        /\ rcall.fn = "-"
        /\ ~rtoken
        /\ pc = "-"
        /\ calls = NoCalls

\* a body that is in order but for its height key
C12_Witness ==
    /\ rreq.route = "generations"
    /\ rreq.fieldsOk
    /\ rreq.bodyKeys = {"height"}
    /\ rpc = "rejected"
    /\ rcall.error = "unsupported_params"

(***************************************************************************)
(* Properties of the draft (checked under SpecDraft).                      *)
(***************************************************************************)
\* C13: for model nanobanana, generateImages and generateImageComposition
\* put width 1024, height 1024, image_ratio 1 and resolution_type "2k" into
\* the core parameters of the draft whatever resolution and ratio the client
\* gave, and the override was logged.
C13_NanobananaOverride ==
    (req.model = "nanobanana" /\ draft # NoDraft) =>
        /\ draft.width = Fixed(1024)
        /\ draft.height = Fixed(1024)
        /\ draft.image_ratio = Fixed(1)
        /\ draft.resolution_type = "2k"
        /\ overrideWarned

\* the scenario of the override: nanobanana asked for 4k at 21:9
C13_Witness ==
    /\ req.op = "generateImageComposition"
    /\ req.model = "nanobanana"
    /\ req.resolution = "4k"
    /\ req.ratio = "21:9"
    /\ draft # NoDraft
    /\ draft.width = Fixed(1024)
    /\ overrideWarned

\* the prompt has one of the three words, or digits followed by zhang
PromptAsksForSeveral(prompt) ==
    \/ \E k \in 1..Len(prompt) : prompt[k] \in {"lianxu", "huiben", "gushi"}
    \/ \E k \in 1..(Len(prompt) - 1) :
          prompt[k] \in Digits /\ prompt[k + 1] = "zhang"

\* the digits that end at position k, read as a number
RECURSIVE NumberEndingAt(_, _)
NumberEndingAt(prompt, k) ==
    IF k = 0 \/ prompt[k] \notin Digits THEN 0
    ELSE 10 * NumberEndingAt(prompt, k - 1) + DigitVal(prompt[k])

\* the number before the first zhang that follows a digit, or 4
RequestedCount(prompt) ==
    LET at == { k \in 2..Len(prompt) :
                  prompt[k] = "zhang" /\ prompt[k - 1] \in Digits }
    IN  IF at = {} THEN 4
        ELSE NumberEndingAt(prompt,
                            (CHOOSE k \in at : \A j \in at : k <= j) - 1)

\* C14: for model jimeng-4.0 and a prompt with one of the words or with
\* digits followed by zhang, generateImages takes the multi-image path and
\* its poller expects the number of the first such match, or 4 without one.
C14_MultiImageExpectedCount ==
    (/\ req.op = "generateImages"
     /\ req.model = "jimeng-4.0"
     /\ PromptAsksForSeveral(req.prompt)
     /\ pc = "poll") =>
        /\ poller.maxPollCount = 600
        /\ poller.expectedItemCount = RequestedCount(req.prompt)

\* "... 6 zhang ..." gives a poller that expects 6
C14_Witness ==
    /\ req.op = "generateImages"
    /\ req.model = "jimeng-4.0"
    /\ req.prompt = <<"x", "6", "zhang">>
    /\ pc = "poll"
    /\ poller.expectedItemCount = 6

\* C15: with an international token a model name that is not in the
\* international table ends the call in an error before any upstream
\* request; with a domestic token an unknown name maps to the entry of the
\* default model and the call goes on to its upstream requests.
C15_ModelMapping ==
    /\ (req.intl /\ req.model \notin InternationalModels /\ pc # "start") =>
           /\ pc = "done"
           /\ outcome.kind = "error"
           /\ calls = NoCalls
           /\ draft = NoDraft
    /\ (~req.intl /\ req.model \notin DomesticModels) =>
           /\ draft # NoDraft => draft.model = <<"mapped", "jimeng-4.0">>
           /\ (pc = "done" /\ calls = NoCalls) =>
                  /\ req.model # "nanobanana"
                  /\ getResolutionParamsThrows(req.resolution, req.ratio)

\* a domestic call with an unknown model name that got as far as its draft
C15_Witness ==
    /\ ~req.intl
    /\ req.model = "other-model"
    /\ draft # NoDraft
    /\ draft.model = <<"mapped", "jimeng-4.0">>

(***************************************************************************)
(* ApiService.chatStream of the web UI (jimeng-web-ui, services/api.ts).   *)
(* The response body is a sequence of lines; the reader hands it out in    *)
(* chunks that may end between two lines or inside one, so positions are   *)
(* counted in half lines.  The kinds of line:                              *)
(*   delta_a, delta_b  data: {"choices":[{"delta":{"content":"a"}}]}       *)
(*   delta_empty       a data line whose JSON carries no content           *)
(*   bad_json          a data line that is not JSON                        *)
(*   done              data: [DONE]                                        *)
(*   blank             an empty line                                       *)
(*   other             a line that does not start with "data: "            *)
(***************************************************************************)
\* most lines of a response body
MaxLines == 3

LineKinds ==
    {"delta_a", "delta_b", "delta_empty", "bad_json", "done", "blank", "other"}

RECURSIVE LineSeqs(_)
LineSeqs(n) ==
    IF n = 0 THEN {<<>>}
    ELSE LET shorter == LineSeqs(n - 1)
         IN  shorter \cup { Append(l, k) : l \in {x \in shorter : Len(x) = n - 1},
                                            k \in LineKinds }

Bodies ==
    { [lines |-> l, terminated |-> t] : l \in LineSeqs(MaxLines), t \in BOOLEAN }
    \ {[lines |-> <<>>, terminated |-> FALSE]}

\* a call onMessage(content, done)
Call(content, done) == [content |-> content, done |-> done]

\* line.startsWith('data: ')
startsWithData(line) ==
    line \in {"delta_a", "delta_b", "delta_empty", "bad_json", "done"}

\* parsed.choices?.[0]?.delta?.content || '', and '' when JSON.parse throws
content(line) ==
    CASE line = "delta_a" -> "a"
      [] line = "delta_b" -> "b"
      [] OTHER -> ""

\* a loop that goes on with the lines after [DONE]
linesAfterDoneAll(rest) == rest

\* onMessage('', true); return
linesAfterDone(rest) == <<>>

\* for (const line of lines) {...}: the calls it makes, and whether it returned
RECURSIVE forLines(_)
forLines(ls) ==
    IF ls = <<>> THEN [calls |-> <<>>, returned |-> FALSE]
    ELSE IF ~startsWithData(Head(ls)) THEN forLines(Tail(ls))
    ELSE IF Head(ls) = "done"
    THEN [calls |-> <<Call("", TRUE)>> \o forLines(linesAfterDone(Tail(ls))).calls,
          returned |-> TRUE]
    ELSE IF content(Head(ls)) # ""
    THEN [calls |-> <<Call(content(Head(ls)), FALSE)>> \o forLines(Tail(ls)).calls,
          returned |-> forLines(Tail(ls)).returned]
    ELSE forLines(Tail(ls))

\* half lines of the whole body
BodyLength(b) == 2 * Len(b.lines)

\* lines whose newline is within the first n half lines
linesUpTo(b, n) ==
    IF n = BodyLength(b) /\ ~b.terminated
    THEN Len(b.lines) - 1
    ELSE n \div 2

\* buffer.split('\n') without its last element, after a chunk that takes
\* the reader from half line p to half line n
splitLines(b, p, n) == SubSeq(b.lines, linesUpTo(b, p) + 1, linesUpTo(b, n))

chatStream ==
    /\ chatPc = "idle"
    /\ IF ~config
       THEN /\ onErrorCalls' = Append(onErrorCalls, "AUTH")
            /\ chatPc' = "noop"
       ELSE /\ chatPc' = "fetch"
            /\ UNCHANGED onErrorCalls
    /\ UNCHANGED <<notChat, config, body, pos, onMessageCalls>>

FetchResults == {"ok", "not_ok", "no_body", "rejected"}

\* fetch(...).then(...).catch(...)
FetchSettles(r) ==
    /\ chatPc = "fetch"
    /\ IF r = "ok"
       THEN chatPc' = "read" /\ UNCHANGED onErrorCalls
       ELSE /\ onErrorCalls' = Append(onErrorCalls, "NETWORK")
            /\ chatPc' = "failed"
    /\ UNCHANGED <<notChat, config, body, pos, onMessageCalls>>

\* reader.read() hands out the body up to half line n
Read(n) ==
    /\ chatPc = "read"
    /\ n > pos
    /\ n <= BodyLength(body)
    /\ pos' = n
    /\ onMessageCalls' = onMessageCalls \o forLines(splitLines(body, pos, n)).calls
    /\ chatPc' = IF forLines(splitLines(body, pos, n)).returned
                 THEN "done" ELSE "read"
    /\ UNCHANGED <<notChat, config, body, onErrorCalls>>

\* reader.read() answers done: true
ReadEnd ==
    /\ chatPc = "read"
    /\ pos = BodyLength(body)
    /\ onMessageCalls' = Append(onMessageCalls, Call("", TRUE))
    /\ chatPc' = "done"
    /\ UNCHANGED <<notChat, config, body, pos, onErrorCalls>>

\* reader.read() rejects
ReadRejects ==
    /\ chatPc = "read"
    /\ onErrorCalls' = Append(onErrorCalls, "NETWORK")
    /\ chatPc' = "failed"
    /\ UNCHANGED <<notChat, config, body, pos, onMessageCalls>>

\* the caller uses the returned abort function: AbortError is not reported
Abort ==
    /\ chatPc \in {"fetch", "read"}
    /\ chatPc' = "aborted"
    /\ UNCHANGED <<notChat, config, body, pos, onMessageCalls, onErrorCalls>>

NextChat ==
    \/ chatStream
    \/ \E r \in FetchResults : FetchSettles(r)
    \/ \E n \in 1..BodyLength(body) : Read(n)
    \/ ReadEnd
    \/ ReadRejects
    \/ Abort

InitChat ==
    /\ config \in BOOLEAN
    /\ body \in Bodies
    /\ pos = 0
    /\ onMessageCalls = <<>>
    /\ onErrorCalls = <<>>
    /\ chatPc = "idle"
    /\ GenIdle
    /\ RouteIdle
    /\ FnIdle
    /\ SrvIdle
    /\ ViewIdle
    /\ LayoutIdle
    /\ UploaderIdle

SpecChat == InitChat /\ [][NextChat]_vars

(***************************************************************************)
(* Properties of chatStream (checked under SpecChat).                      *)
(***************************************************************************)
\* the lines of the body that end with a newline
CompleteLines == 
    IF body.terminated THEN body.lines
    ELSE SubSeq(body.lines, 1, Len(body.lines) - 1)

\* the place of the first [DONE] line, or one past the last complete line
SentinelAt ==
    LET at == { k \in 1..Len(CompleteLines) : CompleteLines[k] = "done" }
    IN  IF at = {} THEN Len(CompleteLines) + 1
        ELSE CHOOSE k \in at : \A j \in at : k <= j

IsDelta(line) == line \in {"delta_a", "delta_b"}

\* the deltas of the lines before the sentinel, in the order of arrival
ExpectedDeltas ==
    LET before == SelectSeq(SubSeq(CompleteLines, 1, SentinelAt - 1), IsDelta)
    IN  [k \in 1..Len(before) |-> IF before[k] = "delta_a" THEN "a" ELSE "b"]

IsCompletion(c) == c.done

DeliveredDeltas ==
    LET d == SelectSeq(onMessageCalls, LAMBDA c : ~c.done)
    IN  [k \in 1..Len(d) |-> d[k].content]

\* C16: a chatStream call with a configuration delivers the content deltas
\* in the order of arrival up to the [DONE] line; at that line, or at the
\* end of the body, onMessage('', true) is called exactly once, and nothing
\* is delivered after it, whatever lines follow [DONE].
C16_StreamDelivery ==
    (config /\ chatPc # "-") =>
        /\ Len(DeliveredDeltas) <= Len(ExpectedDeltas)
        /\ DeliveredDeltas = SubSeq(ExpectedDeltas, 1, Len(DeliveredDeltas))
        /\ Len(SelectSeq(onMessageCalls, IsCompletion)) <= 1
        /\ \A k \in 1..Len(onMessageCalls) :
              onMessageCalls[k].done =>
                  /\ k = Len(onMessageCalls)
                  /\ onMessageCalls[k].content = ""
        /\ (SentinelAt <= Len(CompleteLines) /\ pos >= 2 * SentinelAt) =>
              chatPc = "done"
        /\ chatPc = "done" =>
              /\ Len(SelectSeq(onMessageCalls, IsCompletion)) = 1
              /\ DeliveredDeltas = ExpectedDeltas

\* a delta, then [DONE], then one more data line in the same body
C16_Witness ==
    /\ config
    /\ body = [lines |-> <<"delta_a", "done", "delta_b">>, terminated |-> TRUE]
    /\ pos = 6
    /\ chatPc = "done"
    /\ onMessageCalls = <<Call("a", FALSE), Call("", TRUE)>>

(***************************************************************************)
(* processImageInput (controllers/images.ts): which branch an input takes. *)
(* A string is a sequence of tokens; "a" is any other text.  Paths follow  *)
(* the POSIX rules of the path module; "homedir" and "cwd" stand for the   *)
(* absolute paths os.homedir() and process.cwd().                          *)
(***************************************************************************)
\* longest image string, in tokens
MaxPathLen == 3

\* pieces of a string input; "//" begins a protocol-relative URL, "/9j/" is
\* the base64 of the first bytes of a JPEG file
PathTokens == {"file://", "/", "~", "C:\\", "./", "../", "http://", "//", "/9j/", "a"}

\* pathStr.startsWith('/') for a string that begins with the piece
startsWithSlash(piece) == piece \in {"/", "//", "/9j/"}
InputTypes == {"Buffer", "ArrayBuffer", "TypedArray", "string", "other"}

RECURSIVE PathStrings(_)
PathStrings(n) ==
    IF n = 0 THEN {<<>>}
    ELSE LET shorter == PathStrings(n - 1)
         IN  shorter \cup { Append(q, t) : q \in {x \in shorter : Len(x) = n - 1},
                                            t \in PathTokens }

ImageInputs ==
    { [type |-> t, str |-> <<>>] : t \in InputTypes \ {"string"} }
    \cup { [type |-> "string", str |-> q] : q \in PathStrings(MaxPathLen) }

isLocalFilePath(pathStr) ==
    /\ pathStr # <<>>
    /\ \/ Head(pathStr) \in {"file://", "C:\\", "~"}
       \/ startsWithSlash(Head(pathStr))

\* path.isAbsolute
isAbsolute(filePath) ==
    /\ filePath # <<>>
    /\ (Head(filePath) \in {"homedir", "cwd"} \/ startsWithSlash(Head(filePath)))

\* fileURLToPath(image), or image.substring(7) when it throws: in both
\* cases what follows file://
\* path.join(os.homedir(), image.substring(1)) for ~
localFilePath(image) ==
    LET filePath == IF Head(image) = "file://" THEN Tail(image)
                    ELSE IF Head(image) = "~" THEN <<"homedir">> \o Tail(image)
                    ELSE image
    IN  IF isAbsolute(filePath) THEN filePath ELSE <<"cwd">> \o filePath

Branch(branch, filePath) == [branch |-> branch, filePath |-> filePath]

processImageInput(image) ==
    IF image.type \in {"Buffer", "ArrayBuffer", "TypedArray"}
    THEN Branch("uploadImageBuffer", <<>>)
    ELSE IF image.type = "string" /\ isLocalFilePath(image.str)
    THEN Branch("readFile", localFilePath(image.str))
    ELSE IF image.type = "string"
    THEN Branch("uploadImageFromUrl", <<>>)
    ELSE Branch("throw", <<>>)

FnArg(fn, image, c) == [fn |-> fn, image |-> image, content |-> c]

ProcessImageInput ==
    /\ fnArg.fn = "processImageInput"
    /\ ~fnResult.applied
    /\ fnResult' = Result(processImageInput(fnArg.image))
    /\ UNCHANGED <<notFn, fnArg>>

(***************************************************************************)
(* The message parser (lib/message-parser.ts): parseMessageContent and     *)
(* addImage.  A value is a sequence of tokens: "QUJD" is a run of base64   *)
(* characters, "!" a character outside the base64 alphabet.  A part of a   *)
(* content array carries one field besides its type.                       *)
(***************************************************************************)
\* longest value of a field, in tokens
MaxValueLen == 2

ValueTokens ==
    {"http://", "HTTPS://", "//", "data:image/png;base64,", "data:text/plain,",
     "QUJD", "!"}

RECURSIVE Values(_)
Values(n) ==
    IF n = 0 THEN {<<>>}
    ELSE LET shorter == Values(n - 1)
         IN  shorter \cup { Append(q, t) : q \in {x \in shorter : Len(x) = n - 1},
                                            t \in ValueTokens }

PartTypes == {"text", "input_text", "image_url", "input_image", "image"}
PartFields ==
    {"text", "image_url", "image_url.url", "url", "image_base64", "image_bytes",
     "b64_json"}

Part(type, field, value) == [type |-> type, field |-> field, value |-> value]

Parts ==
    { Part(t, f, v) : t \in PartTypes, f \in PartFields, v \in Values(MaxValueLen) }

\* the parts of the arrays of two parts
ImageParts == { Part("image_url", "image_url.url", v) : v \in Values(1) }

Content(kind, text, parts) == [kind |-> kind, text |-> text, parts |-> parts]

Contents ==
    { Content("string", v, <<>>) : v \in Values(MaxValueLen) }
    \cup { Content("array", <<>>, <<q>>) : q \in Parts }
    \cup { Content("array", <<>>, <<q1, q2>>) : q1 \in ImageParts, q2 \in ImageParts }
    \cup { Content("object", <<>>, <<q>>) : q \in Parts }
    \cup { Content("other", <<>>, <<>>) }

\* /^https?:\/\//i.test(value) || value.startsWith('//')
isLikelyUrl(value) ==
    value # <<>> /\ Head(value) \in {"http://", "HTTPS://", "//"}

MessageImage(type, url, base64) == [type |-> type, url |-> url, base64 |-> base64]

\* extractBase64Data: the data URI without its header
extractBase64Data(base64String) ==
    IF /\ Len(base64String) >= 2
       /\ Head(base64String) = "data:image/png;base64,"
    THEN Tail(base64String)
    ELSE base64String

addImage(images, value) ==
    IF value = <<>> THEN images
    ELSE IF Head(value) = "data:image/png;base64,"
    THEN Append(images, MessageImage("base64", <<>>, value))
    ELSE IF isLikelyUrl(value)
    THEN Append(images, MessageImage("url", value, <<>>))
    ELSE Append(images, MessageImage("base64", <<>>, value))

\* part.<field>, the empty string standing for a field that is not there
field(part, name) == IF part.field = name THEN part.value ELSE <<>>

\* part.image_url is there: a non-empty string, or an object
hasImageUrl(part) ==
    \/ part.field = "image_url" /\ part.value # <<>>
    \/ part.field = "image_url.url"

Parsed(text, images) == [text |-> text, images |-> images]

\* one round of the loop over a content array
arrayPart(acc, part) ==
    IF part.type \in {"text", "input_text"} /\ field(part, "text") # <<>>
    THEN Parsed(Append(acc.text, part.value), acc.images)
    ELSE IF part.type \in {"image_url", "input_image"} /\ hasImageUrl(part)
    THEN Parsed(acc.text, addImage(acc.images, part.value))
    ELSE IF part.type = "image" /\ field(part, "url") # <<>>
    THEN Parsed(acc.text, addImage(acc.images, part.value))
    ELSE IF part.type = "input_image" /\ field(part, "image_base64") # <<>>
    THEN Parsed(acc.text, addImage(acc.images, part.value))
    ELSE IF part.type = "input_image" /\ field(part, "image_bytes") # <<>>
    THEN Parsed(acc.text, addImage(acc.images, part.value))
    ELSE IF part.type = "image_url" /\ field(part, "b64_json") # <<>>
    THEN Parsed(acc.text, addImage(acc.images, part.value))
    ELSE acc

\* the branch for a single content object
objectPart(acc, part) ==
    IF part.type \in {"text", "input_text"} /\ field(part, "text") # <<>>
    THEN Parsed(Append(acc.text, part.value), acc.images)
    ELSE IF part.type \in {"image_url", "input_image"} /\ hasImageUrl(part)
    THEN Parsed(acc.text, addImage(acc.images, part.value))
    ELSE IF part.type \in {"input_image", "image"} /\ field(part, "image_base64") # <<>>
    THEN Parsed(acc.text, addImage(acc.images, part.value))
    ELSE IF part.type \in {"input_image", "image"} /\ field(part, "image_bytes") # <<>>
    THEN Parsed(acc.text, addImage(acc.images, part.value))
    ELSE IF part.type \in {"image_url", "image"} /\ field(part, "url") # <<>>
    THEN Parsed(acc.text, addImage(acc.images, part.value))
    ELSE IF field(part, "b64_json") # <<>>
    THEN Parsed(acc.text, addImage(acc.images, part.value))
    ELSE acc

RECURSIVE forParts(_, _)
forParts(acc, parts) ==
    IF parts = <<>> THEN acc
    ELSE forParts(arrayPart(acc, Head(parts)), Tail(parts))

parseMessageContent(c) ==
    CASE c.kind = "string" -> Parsed(<<c.text>>, <<>>)
      [] c.kind = "array" -> forParts(Parsed(<<>>, <<>>), c.parts)
      [] c.kind = "object" -> objectPart(Parsed(<<>>, <<>>), c.parts[1])
      [] OTHER -> Parsed(<<>>, <<>>)

ParseMessageContent ==
    /\ fnArg.fn = "parseMessageContent"
    /\ ~fnResult.applied
    /\ fnResult' = Result(parseMessageContent(fnArg.content))
    /\ UNCHANGED <<notFn, fnArg>>

NoImage == [type |-> "other", str |-> <<>>]
NoContent == Content("other", <<>>, <<>>)

FnArgs ==
    { FnArg("processImageInput", im, NoContent) : im \in ImageInputs }
    \cup { FnArg("parseMessageContent", NoImage, c) : c \in Contents }

NextFn ==
    \/ ProcessImageInput
    \/ ParseMessageContent

InitFn ==
    /\ fnArg \in FnArgs
    /\ fnResult = NoResult
    /\ GenIdle
    /\ RouteIdle
    /\ ChatIdle
    /\ SrvIdle
    /\ ViewIdle
    /\ LayoutIdle
    /\ UploaderIdle

SpecFn == InitFn /\ [][NextFn]_vars

(***************************************************************************)
(* Properties of the two functions (checked under SpecFn).                 *)
(***************************************************************************)
\* the string has one of the four forms of a local path
IsLocalPathForm(str) ==
    /\ str # <<>>
    /\ \/ Head(str) = "file://"
       \/ Head(str) = "~"
       \/ Head(str) \in {"/", "C:\\"}
       \/ Head(str) \in {"./", "../"}

\* C17: every string input that has the form of a local path (a file://
\* URL, ~-prefixed, absolute or relative) is resolved by processImageInput
\* to an absolute path and read from that file; none is handed to the
\* branch that downloads a URL.
C17_LocalPathsAreRead ==
    (/\ fnArg.fn = "processImageInput"
     /\ fnResult.applied
     /\ fnArg.image.type = "string"
     /\ IsLocalPathForm(fnArg.image.str)) =>
        /\ fnResult.value.branch = "readFile"
        /\ isAbsolute(fnResult.value.filePath)

\* the value parses as base64
ParsesAsBase64(v) == v # <<>> /\ \A k \in 1..Len(v) : v[k] = "QUJD"

\* C18: every image the parser extracts is a url image whose value starts
\* with http://, https:// or //, or a base64 image; the data of a base64
\* image has no data-URI header left and parses as base64.
C18_ImageClassification ==
    (fnArg.fn = "parseMessageContent" /\ fnResult.applied) =>
        \A k \in 1..Len(fnResult.value.images) :
            LET img == fnResult.value.images[k]
            IN  /\ img.type = "url" =>
                       /\ img.url # <<>>
                       /\ Head(img.url) \in {"http://", "HTTPS://", "//"}
                /\ img.type = "base64" =>
                       /\ Head(img.base64) # "data:image/png;base64,"
                       /\ ParsesAsBase64(img.base64)

(***************************************************************************)
(* The start-up test of src/unnamed/part_000, test('服务可启动并响应基础接口'),  *)
(* and the server process it spawns.  The server (dist/index.js) is not    *)
(* among the sources; what it does is taken from the specification:        *)
(* "GET /ping -> pong", "GET /v1/models -> {object: list, data}" and       *)
(* "Exit codes: 0 on clean shutdown; non-zero on fatal startup (bind       *)
(* failure, unreadable config)".                                           *)
(***************************************************************************)
timeoutMs == 20000
intervalMs == 200

Response(url, status, text) == [url |-> url, answered |-> TRUE, status |-> status, body |-> text]

\* fetch rejects: nothing listens on the port
Refused(url) == [url |-> url, answered |-> FALSE, status |-> 0, body |-> "-"]

\* GET /ping of the server
pingNotFound == Response("/ping", 404, "Not Found")

ping == Response("/ping", 200, "pong")

\* the routes of the server the test asks for; info.service and
\* models.object stand for the JSON bodies
serverAnswer(url) ==
    CASE url = "/ping" -> ping
      [] url = "/" -> Response(url, 200, "jimeng-api")
      [] url = "/v1/models" -> Response(url, 200, "list")

\* fetch(baseUrl + url)
fetch(url) ==
    IF child.state = "listening" THEN serverAnswer(url) ELSE Refused(url)

\* Response.ok
ok(res) == res.answered /\ res.status \in 200..299

\* const port = await getFreePort(): it may reject, and the test fails
\* before anything is spawned
GetFreePort ==
    /\ testPc = "getFreePort"
    /\ \/ testPc' = "spawn" /\ UNCHANGED testResult
       \/ testPc' = "done" /\ testResult' = "failed"
    /\ UNCHANGED <<notSrv, child, elapsed, lastFetch>>

\* spawn(process.execPath, [entry, '--host', ..., '--port', ...])
Spawn ==
    /\ testPc = "spawn"
    /\ child' = [child EXCEPT !.state = "starting"]
    /\ testPc' = "waitFetch"
    /\ UNCHANGED <<notSrv, elapsed, lastFetch, testResult>>

\* the server has bound its port and accepts connections
Listen ==
    /\ child.state = "starting"
    /\ child' = [child EXCEPT !.state = "listening"]
    /\ UNCHANGED <<notSrv, testPc, elapsed, lastFetch, testResult>>

\* fatal startup (bind failure, unreadable config): a non-zero exit code
FatalStartup ==
    /\ child.state = "starting"
    /\ child' = [child EXCEPT !.state = "exited", !.exitCode = "non-zero"]
    /\ UNCHANGED <<notSrv, testPc, elapsed, lastFetch, testResult>>

\* waitForOk: try { const res = await fetch(url); if (res.ok) return } catch {}
WaitFetch ==
    /\ testPc = "waitFetch"
    /\ lastFetch' = fetch("/ping")
    /\ testPc' = IF ok(fetch("/ping")) THEN "ping" ELSE "waitCheck"
    /\ UNCHANGED <<notSrv, child, elapsed, testResult>>

\* waitForOk: if (Date.now() - start > timeoutMs) throw ...; the throw
\* leaves the try block of the test for its finally
WaitCheck ==
    /\ testPc = "waitCheck"
    /\ IF elapsed > timeoutMs
       THEN testPc' = "finally" /\ testResult' = "timeout"
       ELSE testPc' = "sleep" /\ UNCHANGED testResult
    /\ UNCHANGED <<notSrv, child, elapsed, lastFetch>>

\* waitForOk: await new Promise((r) => setTimeout(r, intervalMs))
Sleep ==
    /\ testPc = "sleep"
    /\ elapsed' = elapsed + intervalMs
    /\ testPc' = "waitFetch"
    /\ UNCHANGED <<notSrv, child, lastFetch, testResult>>

\* one fetch of the test with its assertions: a rejected fetch or a failed
\* assertion throws
FetchAndAssert(at, url, text, next) ==
    /\ testPc = at
    /\ lastFetch' = fetch(url)
    /\ IF fetch(url).answered /\ fetch(url).status = 200 /\ fetch(url).body = text
       THEN /\ testPc' = next
            /\ testResult' = IF next = "finally" THEN "passed" ELSE testResult
       ELSE testPc' = "finally" /\ testResult' = "failed"
    /\ UNCHANGED <<notSrv, child, elapsed>>

FetchPing == FetchAndAssert("ping", "/ping", "pong", "info")

FetchInfo == FetchAndAssert("info", "/", "jimeng-api", "models")

FetchModels == FetchAndAssert("models", "/v1/models", "list", "finally")

\* finally { await stopProcess(child) }: child.kill() and wait for 'exit'
stopProcess ==
    /\ testPc = "finally"
    /\ child' = IF child.state = "exited"
                THEN [child EXCEPT !.killed = TRUE]
                ELSE [state |-> "exited", exitCode |-> "SIGTERM", killed |-> TRUE]
    /\ testPc' = "done"
    /\ UNCHANGED <<notSrv, elapsed, lastFetch, testResult>>

\* the steps of the test
TestStep ==
    \/ GetFreePort
    \/ Spawn
    \/ WaitFetch
    \/ WaitCheck
    \/ Sleep
    \/ FetchPing
    \/ FetchInfo
    \/ FetchModels
    \/ stopProcess

NextServer ==
    \/ TestStep
    \/ Listen
    \/ FatalStartup

InitServer ==
    /\ child = [state |-> "none", exitCode |-> "-", killed |-> FALSE]
    /\ testPc = "getFreePort"
    /\ elapsed = 0
    /\ lastFetch = NoFetch
    /\ testResult = "-"
    /\ GenIdle
    /\ RouteIdle
    /\ ChatIdle
    /\ FnIdle
    /\ ViewIdle
    /\ LayoutIdle
    /\ UploaderIdle

SpecServer == InitServer /\ [][NextServer]_vars

\* the event loops of the test and of the server keep running: a pending
\* step of the test is taken, and a server that is starting and does not
\* exit gets to listen
FairSpecServer == SpecServer /\ WF_vars(TestStep) /\ WF_vars(Listen)

(***************************************************************************)
(* Properties of the start-up (checked under FairSpecServer).              *)
(***************************************************************************)
Ready == child.state = "listening"

\* every answer GET /ping has got has status 200 and the body pong
PingAnswersPong ==
    (lastFetch.url = "/ping" /\ lastFetch.answered) =>
        (lastFetch.status = 200 /\ lastFetch.body = "pong")

\* a ready server stays ready until the test stops it
ReadyUntilStopped ==
    [][(Ready /\ testPc # "finally") => Ready']_vars

UploadStepInOrder(k) ==
    LET a == uploads[k].phase
        b == uploads'[k].phase
    IN  a # b =>
          /\ b = "token" => a \in {"idle", "read", "download"} /\ calls'.token = calls.token + 1
          /\ b = "apply" => a = "token" /\ calls'.apply = calls.apply + 1
          /\ b = "put" => a = "apply" /\ calls'.put = calls.put + 1
          /\ b = "commit" => a = "put" /\ calls'.commit = calls.commit + 1
          /\ b = "done" => a = "commit" /\ uploads[k].resp = "-"
          /\ a \notin {"failed", "done"}

\* a request of the uploader is sent only by an image that enters its phase
UploadRequestHasSender(endpoint) ==
    calls'[endpoint] # calls[endpoint] =>
        \E k \in 1..Len(uploads) :
            uploads[k].phase # endpoint /\ uploads'[k].phase = endpoint

\* the Uri of image k is returned in the step that takes the successful
\* answer of its commit, and in no other
UriOnlyAfterCommit(k) ==
    returnedUri'[k] # returnedUri[k] =>
        /\ uploads[k].phase = "commit"
        /\ uploads'[k].phase = "done"
        /\ returnedUri[k] = 0

\* an image has a Uri exactly when its upload went through all four
\* requests; an upload that failed (a commit with another UriStatus than
\* 2000 included) has none
UriIffDone ==
    \A k \in 1..Len(uploads) :
        /\ (returnedUri[k] # 0) <=> (uploads[k].phase = "done")
        /\ uploads[k].phase = "failed" => returnedUri[k] = 0

\* C20: in uploadImageBuffer the four requests are sent in the order
\* get_upload_token, ApplyImageUpload, object PUT, CommitImageUpload, each
\* only after the one before it was answered successfully, and the Uri is
\* returned only after the commit answered with UriStatus 2000.
C20_UploadOrder ==
    /\ [](UriIffDone /\ calls.commit <= calls.put /\ calls.put <= calls.apply /\ calls.apply <= calls.token)
    /\ [][/\ \A k \in 1..Len(uploads) : UploadStepInOrder(k) /\ UriOnlyAfterCommit(k)
          /\ \A e \in UploadPhases : UploadRequestHasSender(e)]_vars

\* the first image has its Uri, and the commit of the second was answered
\* with a UriStatus that is not 2000
C20_Witness ==
    /\ Len(uploads) = 2
    /\ returnedUri[1] # 0
    /\ uploads[2] = Failed("commit", "uri_status_4001")
    /\ calls.commit = 2

(***************************************************************************)
(* No retries in uploadImageBuffer (checked under SpecGen).                *)
(***************************************************************************)
\* the place of a request in the order of the four
Rank(phase) ==
    CASE phase = "token"  -> 1
      [] phase = "apply"  -> 2
      [] phase = "put"    -> 3
      [] phase = "commit" -> 4
      [] phase = "done"   -> 5
      [] OTHER            -> 0

\* the last request the upload of image k has sent
Reached(k) ==
    IF uploads[k].phase = "failed" THEN Rank(uploads[k].at) ELSE Rank(uploads[k].phase)

\* the images whose upload has sent the request of the phase
Senders(phase) ==
    {k \in 1..Len(uploads) : Reached(k) >= Rank(phase) /\ Reached(k) > 0}

\* C21: within one uploadImageBuffer call each of the four requests is sent
\* at most once: every request counted was sent by a different upload, and
\* an upload whose phase got a network failure, a non-2xx response or an
\* error payload has ended the call with an error, with no request of a
\* later phase sent for it.
C21_NoPhaseRetry ==
    /\ \A e \in UploadPhases : calls[e] = Cardinality(Senders(e))
    /\ \A k \in 1..Len(uploads) :
         (uploads[k].phase = "failed" /\ uploads[k].at \in UploadPhases) =>
            /\ pc = "done"
            /\ outcome.kind = "error"
            /\ returnedUri[k] = 0
            /\ \A e \in UploadPhases :
                 Rank(e) > Rank(uploads[k].at) => k \notin Senders(e)

\* the second upload got a non-2xx answer to its PUT after the first upload
\* went through: two PUTs and one commit were sent
C21_Witness ==
    /\ Len(uploads) = 2
    /\ uploads[1].phase = "done"
    /\ uploads[2] = Failed("put", "not_ok")
    /\ calls.put = 2
    /\ calls.commit = 1

(***************************************************************************)
(* The result of a call that polled to success (checked under SpecGen).    *)
(***************************************************************************)
\* C22: when generateImages or generateImageComposition returns normally
\* after the polling ended in success, the list of URLs it returns is not
\* empty.
C22_SuccessHasUrls ==
    (pc = "done" /\ outcome.kind = "ok") => outcome.urls > 0

(***************************************************************************)
(* The classifiers of string inputs agree (checked under SpecFn).          *)
(***************************************************************************)
\* a bare base64 string: nothing but base64 text
IsBareBase64(str) ==
    str # <<>> /\ \A k \in 1..Len(str) : str[k] = "/9j/"

\* C23: a string that the Message Parser takes for a URL (http://, https://
\* or protocol-relative //) and a bare base64 string, one that begins with
\* '/' included, are never treated by processImageInput as a local file
\* path.
C23_UrlAndBase64NotLocal ==
    (/\ fnArg.fn = "processImageInput"
     /\ fnResult.applied
     /\ fnArg.image.type = "string"
     /\ (isLikelyUrl(fnArg.image.str) \/ IsBareBase64(fnArg.image.str))) =>
        fnResult.value.branch = "uploadImageFromUrl"

(***************************************************************************)
(* The expectedItemCount of the poller (checked under SpecDraft).          *)
(***************************************************************************)
\* C24: the expectedItemCount handed to the SmartPoller is at least 1 for
\* every model and prompt: 4 for text-to-image, 1 for image composition and
\* the count taken from the prompt for jimeng-4.0 multi-image.
C24_ExpectedItemCountPositive ==
    pc = "poll" =>
        /\ poller.expectedItemCount >= 1
        /\ PathOf(req) = "images" => poller.expectedItemCount = 4
        /\ PathOf(req) = "composition" => poller.expectedItemCount = 1

(***************************************************************************)
(* The frame images handed to generateVideo (checked under SpecRoute).     *)
(***************************************************************************)
\* C25: the videos route hands generateVideo at most 2 frame images in
\* all, the entries of the chosen filePaths array and the uploaded files
\* counted together.
C25_AtMostTwoFrames ==
    rcall.fn = "generateVideo" =>
        rcall.filePaths + TotalFiles(rcall.files) <= 2

(***************************************************************************)
(* ChatView (src/jimeng-web-ui/src/views/ChatView.vue) with the chat store *)
(* of src/unnamed/part_007 (stores/chat.store.ts).  A stream is one call   *)
(* of apiService.chatStream: it hands chunks to its onMessage callback,    *)
(* then its completion or an error, and nothing once it was aborted.  The  *)
(* settings store is configured throughout.                                *)
(***************************************************************************)
MaxStreams == 2
MaxChunks == 2

Stream(state, chunks) == [state |-> state, chunks |-> chunks]

\* messages.value.push(newMessage)
addMessage(msgs, role) == Append(msgs, role)

\* chatStore.finishStreaming(): the messages after it
finishStreaming(msgs, streamContent) ==
    IF streamContent # <<>> THEN addMessage(msgs, "assistant") ELSE msgs

\* messageInput.value.trim().length > 0 && !chatStore.isStreaming &&
\* isConfigured.value
canSend == messageInput /\ ~isStreaming

\* the user types into the input box
TypeMessage ==
    /\ ~messageInput
    /\ messageInput' = TRUE
    /\ UNCHANGED <<notView, messages, isStreaming, currentStreamContent, abortStream, streams>>

\* handleSend: addMessage, setConfig, startStreaming, and
\* abortStream = apiService.chatStream(...)
handleSend ==
    /\ canSend
    /\ Len(streams) < MaxStreams
    /\ messageInput' = FALSE
    /\ messages' = addMessage(messages, "user")
    /\ isStreaming' = TRUE
    /\ currentStreamContent' = <<>>
    /\ streams' = Append(streams, Stream("open", 0))
    /\ abortStream' = Len(streams) + 1
    /\ UNCHANGED notView

\* the onMessage callback of stream s with a chunk:
\* chatStore.appendStreamContent(chunk)
StreamChunk(s) ==
    /\ streams[s].state = "open"
    /\ streams[s].chunks < MaxChunks
    /\ streams' = [streams EXCEPT ![s].chunks = @ + 1]
    /\ currentStreamContent' = Append(currentStreamContent, s)
    /\ UNCHANGED <<notView, messageInput, messages, isStreaming, abortStream>>

\* the onMessage callback of stream s with done:
\* chatStore.finishStreaming(); abortStream = null
StreamDone(s) ==
    /\ streams[s].state = "open"
    /\ streams' = [streams EXCEPT ![s].state = "done"]
    /\ messages' = finishStreaming(messages, currentStreamContent)
    /\ isStreaming' = FALSE
    /\ currentStreamContent' = <<>>
    /\ abortStream' = 0
    /\ UNCHANGED <<notView, messageInput>>

\* the onError callback of stream s: chatStore.finishStreaming();
\* chatStore.addMessage({role: 'assistant', content: error}); abortStream = null
StreamError(s) ==
    /\ streams[s].state = "open"
    /\ streams' = [streams EXCEPT ![s].state = "error"]
    /\ messages' = addMessage(finishStreaming(messages, currentStreamContent), "assistant")
    /\ isStreaming' = FALSE
    /\ currentStreamContent' = <<>>
    /\ abortStream' = 0
    /\ UNCHANGED <<notView, messageInput>>

\* handleStop: if (abortStream) { abortStream(); chatStore.finishStreaming();
\* abortStream = null }; aborting a stream that has ended does nothing to it
handleStop ==
    /\ abortStream # 0
    /\ streams' = [streams EXCEPT ![abortStream].state =
                      IF @ = "open" THEN "aborted" ELSE @]
    /\ messages' = finishStreaming(messages, currentStreamContent)
    /\ isStreaming' = FALSE
    /\ currentStreamContent' = <<>>
    /\ abortStream' = 0
    /\ UNCHANGED <<notView, messageInput>>

\* handleClear: chatStore.clearMessages()
handleClear ==
    /\ messages' = <<>>
    /\ isStreaming' = FALSE
    /\ currentStreamContent' = <<>>
    /\ UNCHANGED <<notView, messageInput, abortStream, streams>>

NextView ==
    \/ TypeMessage
    \/ handleSend
    \/ \E s \in 1..Len(streams) : StreamChunk(s)
    \/ \E s \in 1..Len(streams) : StreamDone(s)
    \/ \E s \in 1..Len(streams) : StreamError(s)
    \/ handleStop
    \/ handleClear

InitView ==
    /\ messageInput = FALSE
    /\ messages = <<>>
    /\ isStreaming = FALSE
    /\ currentStreamContent = <<>>
    /\ abortStream = 0
    /\ streams = <<>>
    /\ GenIdle
    /\ RouteIdle
    /\ ChatIdle
    /\ FnIdle
    /\ SrvIdle
    /\ LayoutIdle
    /\ UploaderIdle

SpecView == InitView /\ [][NextView]_vars

(***************************************************************************)
(* Properties of ChatView and the chat store (checked under SpecView).     *)
(***************************************************************************)
\* the streams that can still call their callbacks
ActiveStreams == {s \in 1..Len(streams) : streams[s].state = "open"}

\* C26: at most one chat stream is active at a time: a new stream is
\* started only when no earlier stream can still deliver chunks or its
\* completion to the chat store.
C26_OneActiveStream == Cardinality(ActiveStreams) <= 1

\* C27: in the chat store, whenever isStreaming is false
\* currentStreamContent is the empty string.
C27_IdleStoreHasNoContent == ~isStreaming => currentStreamContent = <<>>

(***************************************************************************)
(* MainLayout (src/jimeng-web-ui/src/layouts/MainLayout.vue) with the      *)
(* settings store, the credit store and the configuration of apiService    *)
(* (src/unnamed/part_001).  The watcher of isConfigured runs after the     *)
(* handler that changed the value and before the next event or reply.      *)
(* Of the configuration only the session id is followed.                   *)
(***************************************************************************)
MaxEdits == 3

\* the session ids a user can type or find stored; "" is the empty field
TypedSessionIds == {"", "a", "b"}

ApiConfig(id) == [set |-> TRUE, sessionId |-> id]

\* computed(() => sessionId.value.length > 0)
isConfigured(id) == id # ""

\* the session id the request interceptor puts into the Authorization
\* header: formatAuthHeader(this.config.sessionId, this.config.region)
headerSessionId(c) == c.sessionId

\* creditStore.fetchCredit() up to its await: isLoading = true, error = null
\* and the request is sent
StartFetchCredit ==
    /\ isLoading' = TRUE
    /\ creditError' = FALSE
    /\ fetches' = Append(fetches, clears)
    /\ UNCHANGED <<creditInfo, clears>>

\* no watcher job is pending
Flushed == watched = isConfigured(sessionId)

\* onMounted: loadFromStorage(), then setConfig and fetchCredit when
\* configured
Mount(stored) ==
    /\ layoutPc = "created"
    /\ layoutPc' = "mounted"
    /\ sessionId' = stored
    /\ IF isConfigured(stored)
       THEN apiConfig' = ApiConfig(stored) /\ StartFetchCredit
       ELSE UNCHANGED <<apiConfig, isLoading, creditError, fetches, creditInfo, clears>>
    /\ UNCHANGED <<notLayout, watched, generating, edits>>

\* the input of the settings modal: settingsStore.setConfig({sessionId})
EditSessionId(id) ==
    /\ layoutPc = "mounted"
    /\ Flushed
    /\ edits < MaxEdits
    /\ id # sessionId
    /\ sessionId' = id
    /\ edits' = edits + 1
    /\ UNCHANGED <<notLayout, apiConfig, watched, layoutPc, generating,
                   creditInfo, isLoading, creditError, fetches, clears>>

\* generateNewSession up to its await: apiService.setConfig with
\* sessionId || 'temp', and the request is sent
GenerateSessionStart ==
    /\ layoutPc = "mounted"
    /\ Flushed
    /\ edits < MaxEdits
    /\ ~generating
    /\ generating' = TRUE
    /\ apiConfig' = ApiConfig(IF sessionId # "" THEN sessionId ELSE "temp")
    /\ edits' = edits + 1
    /\ UNCHANGED <<notLayout, sessionId, watched, layoutPc,
                   creditInfo, isLoading, creditError, fetches, clears>>

\* generateNewSession after its await: sessionId.value = result.sessionId,
\* or the catch
GenerateSessionSettles(success) ==
    /\ generating
    /\ Flushed
    /\ generating' = FALSE
    /\ sessionId' = IF success THEN "generated" ELSE sessionId
    /\ UNCHANGED <<notLayout, apiConfig, watched, layoutPc, edits,
                   creditInfo, isLoading, creditError, fetches, clears>>

\* watch(() => settingsStore.isConfigured, ...): setConfig and fetchCredit,
\* or clearCredit
WatchIsConfigured ==
    /\ layoutPc = "mounted"
    /\ ~Flushed
    /\ watched' = isConfigured(sessionId)
    /\ IF isConfigured(sessionId)
       THEN apiConfig' = ApiConfig(sessionId) /\ StartFetchCredit
       ELSE /\ creditInfo' = [set |-> FALSE, epoch |-> 0]
            /\ creditError' = FALSE
            /\ clears' = clears + 1
            /\ UNCHANGED <<apiConfig, isLoading, fetches>>
    /\ UNCHANGED <<notLayout, sessionId, layoutPc, generating, edits>>

\* the fetches left when the one at place f has settled
Without(fs, f) == SubSeq(fs, 1, f - 1) \o SubSeq(fs, f + 1, Len(fs))

\* fetchCredit after its await: creditInfo.value = data, or the catch;
\* finally isLoading = false
FetchCreditSettles(f, success) ==
    /\ f \in 1..Len(fetches)
    /\ Flushed
    /\ fetches' = Without(fetches, f)
    /\ IF success
       THEN creditInfo' = [set |-> TRUE, epoch |-> fetches[f]] /\ UNCHANGED creditError
       ELSE creditError' = TRUE /\ UNCHANGED creditInfo
    /\ isLoading' = FALSE
    /\ UNCHANGED <<notLayout, sessionId, apiConfig, watched, layoutPc, generating,
                   edits, clears>>

NextLayout ==
    \/ \E stored \in TypedSessionIds : Mount(stored)
    \/ \E id \in TypedSessionIds : EditSessionId(id)
    \/ GenerateSessionStart
    \/ \E success \in BOOLEAN : GenerateSessionSettles(success)
    \/ WatchIsConfigured
    \/ \E f \in 1..Len(fetches) : \E success \in BOOLEAN : FetchCreditSettles(f, success)

InitLayout ==
    /\ sessionId = ""
    /\ apiConfig = [set |-> FALSE, sessionId |-> ""]
    /\ watched = FALSE
    /\ layoutPc = "created"
    /\ generating = FALSE
    /\ edits = 0
    /\ creditInfo = [set |-> FALSE, epoch |-> 0]
    /\ isLoading = FALSE
    /\ creditError = FALSE
    /\ fetches = <<>>
    /\ clears = 0
    /\ GenIdle
    /\ RouteIdle
    /\ ChatIdle
    /\ FnIdle
    /\ SrvIdle
    /\ ViewIdle
    /\ UploaderIdle

SpecLayout == InitLayout /\ [][NextLayout]_vars

(***************************************************************************)
(* Properties of the configuration and the credit (checked under           *)
(* SpecLayout).                                                            *)
(***************************************************************************)
\* C28: whenever the settings store is configured (and the watcher has
\* run), the session id apiService puts into the Authorization header
\* equals settingsStore.sessionId.
C28_HeaderFollowsSettings ==
    (layoutPc = "mounted" /\ Flushed /\ isConfigured(sessionId)) =>
        /\ apiConfig.set
        /\ headerSessionId(apiConfig) = sessionId

\* C29: after clearCredit has run creditInfo stays null until a fetchCredit
\* started after that clearCredit completes: the creditInfo there is came
\* from a fetch that started after the last clearCredit.
C29_ClearedCreditStaysNull ==
    creditInfo.set => creditInfo.epoch = clears

(***************************************************************************)
(* The ImageUploader component (src/unnamed/part_002).  The parent applies *)
(* each emitted update:modelValue, so an emit sets modelValue.  The        *)
(* template shows the drop zone and the URL form only while canAddMore     *)
(* holds, and disables the click and the URL buttons of a disabled         *)
(* component.                                                              *)
(***************************************************************************)
MaxLimit == 2
MaxSelected == 3

\* a file of a selection: accepted by validateFile, not an image, or too big
FileTags == {"ok", "not_image", "too_big"}

RECURSIVE FileLists(_)
FileLists(n) ==
    IF n = 0 THEN {<<>>}
    ELSE LET shorter == FileLists(n - 1)
         IN  shorter \cup { Append(q, t) : q \in {x \in shorter : Len(x) = n - 1},
                                            t \in FileTags }

\* props.modelValue.length < props.maxFiles
canAddMore == Len(modelValue) < maxFiles

\* a count of free places that is one too large
remainingSlotsOffByOne == maxFiles - Len(modelValue) + 1

\* props.maxFiles - props.modelValue.length
remainingSlots == maxFiles - Len(modelValue)

\* validateFile(file): the message, "" for null
validateFile(file) ==
    CASE file = "not_image" -> "type"
      [] file = "too_big"   -> "size"
      [] OTHER              -> ""

IsOk(file) == validateFile(file) = ""
IsRejected(file) == validateFile(file) # ""

\* the message the loop of handleFiles leaves: that of the last file
\* validateFile rejected
lastValidationError(files) ==
    LET rejected == SelectSeq(files, IsRejected)
    IN  IF rejected = <<>> THEN "" ELSE validateFile(rejected[Len(rejected)])

\* the new images of handleFiles
newImages(files) == [k \in 1..Len(SelectSeq(files, IsOk)) |-> "file"]

\* handleFiles(files)
handleFiles(files) ==
    IF Len(files) > remainingSlots
    THEN uploaderError' = "max" /\ UNCHANGED modelValue
    ELSE /\ uploaderError' = lastValidationError(files)
         /\ modelValue' = modelValue \o newImages(files)

\* no addition was asked for
NoAddition == [count |-> 0, places |-> 0]

\* an addition of n images asked for now
Asked(n) == [count |-> n, places |-> maxFiles - Len(modelValue)]

\* a click on the drop zone, triggerFileInput and the change event of its
\* input: handleFileInput; the input is multiple only if maxFiles > 1
SelectFiles(files) ==
    /\ canAddMore
    /\ ~disabled
    /\ files # <<>>
    /\ maxFiles = 1 => Len(files) = 1
    /\ handleFiles(files)
    /\ lastAddition' = Asked(Len(files))
    /\ UNCHANGED <<notUploader, maxFiles, disabled, urlInput, showUrlForm, isDragging>>

\* handleDrop
Drop(files) ==
    /\ canAddMore
    /\ isDragging' = FALSE
    /\ lastAddition' = Asked(Len(files))
    /\ IF disabled \/ ~canAddMore \/ files = <<>>
       THEN UNCHANGED <<uploaderError, modelValue>>
       ELSE handleFiles(files)
    /\ UNCHANGED <<notUploader, maxFiles, disabled, urlInput, showUrlForm>>

\* handleDragOver
DragOver ==
    /\ canAddMore
    /\ isDragging' = IF ~disabled /\ canAddMore THEN TRUE ELSE isDragging
    /\ lastAddition' = NoAddition
    /\ UNCHANGED <<notUploader, modelValue, maxFiles, disabled, uploaderError, urlInput, showUrlForm>>

\* handleDragLeave
DragLeave ==
    /\ canAddMore
    /\ isDragging' = FALSE
    /\ lastAddition' = NoAddition
    /\ UNCHANGED <<notUploader, modelValue, maxFiles, disabled, uploaderError, urlInput, showUrlForm>>

\* the URL part of the template is shown
UrlPartShown == canAddMore /\ ~disabled

\* @click="showUrlForm = true"
OpenUrlForm ==
    /\ UrlPartShown
    /\ ~showUrlForm
    /\ showUrlForm' = TRUE
    /\ lastAddition' = NoAddition
    /\ UNCHANGED <<notUploader, modelValue, maxFiles, disabled, uploaderError, urlInput, isDragging>>

\* v-model="urlInput"
TypeUrl(text) ==
    /\ UrlPartShown
    /\ showUrlForm
    /\ text # urlInput
    /\ urlInput' = text
    /\ lastAddition' = NoAddition
    /\ UNCHANGED <<notUploader, modelValue, maxFiles, disabled, uploaderError, showUrlForm, isDragging>>

\* addUrlImage
addUrlImage ==
    /\ UrlPartShown
    /\ showUrlForm
    /\ IF urlInput = ""
       THEN uploaderError' = "url_empty" /\ UNCHANGED <<modelValue, urlInput, showUrlForm>>
       ELSE IF urlInput # "url"
       THEN uploaderError' = "url_invalid" /\ UNCHANGED <<modelValue, urlInput, showUrlForm>>
       ELSE IF ~canAddMore
       THEN uploaderError' = "max" /\ UNCHANGED <<modelValue, urlInput, showUrlForm>>
       ELSE /\ uploaderError' = ""
            /\ modelValue' = Append(modelValue, "url")
            /\ urlInput' = ""
            /\ showUrlForm' = FALSE
    /\ lastAddition' = IF urlInput = "url" THEN Asked(1) ELSE NoAddition
    /\ UNCHANGED <<notUploader, maxFiles, disabled, isDragging>>

\* @click="showUrlForm = false; urlInput = ''"
CancelUrlForm ==
    /\ canAddMore
    /\ showUrlForm
    /\ showUrlForm' = FALSE
    /\ urlInput' = ""
    /\ lastAddition' = NoAddition
    /\ UNCHANGED <<notUploader, modelValue, maxFiles, disabled, uploaderError, isDragging>>

\* removeImage(id) for the image at place k
removeImage(k) ==
    /\ k \in 1..Len(modelValue)
    /\ modelValue' = SubSeq(modelValue, 1, k - 1) \o SubSeq(modelValue, k + 1, Len(modelValue))
    /\ lastAddition' = NoAddition
    /\ UNCHANGED <<notUploader, maxFiles, disabled, uploaderError, urlInput, showUrlForm, isDragging>>

NextUploader ==
    \/ \E files \in FileLists(MaxSelected) : SelectFiles(files)
    \/ \E files \in FileLists(MaxSelected) : Drop(files)
    \/ DragOver
    \/ DragLeave
    \/ OpenUrlForm
    \/ \E text \in {"", "url", "text"} : TypeUrl(text)
    \/ addUrlImage
    \/ CancelUrlForm
    \/ \E k \in 1..Len(modelValue) : removeImage(k)

InitUploader ==
    /\ modelValue = <<>>
    /\ maxFiles \in 1..MaxLimit
    /\ disabled \in BOOLEAN
    /\ uploaderError = ""
    /\ urlInput = ""
    /\ showUrlForm = FALSE
    /\ isDragging = FALSE
    /\ lastAddition = [count |-> 0, places |-> 0]
    /\ GenIdle
    /\ RouteIdle
    /\ ChatIdle
    /\ FnIdle
    /\ SrvIdle
    /\ ViewIdle
    /\ LayoutIdle

SpecUploader == InitUploader /\ [][NextUploader]_vars

(***************************************************************************)
(* Properties of the ImageUploader (checked under SpecUploader).           *)
(***************************************************************************)
\* the addition last asked for would exceed the limit
OverLimit == lastAddition.count > lastAddition.places

\* the addition last asked for added nothing and set the error message
TurnedDown ==
    /\ Len(modelValue) = maxFiles - lastAddition.places
    /\ uploaderError = "max"

\* C30 as stated: the number of selected images never exceeds maxFiles, and
\* every selection, drop or URL addition that would exceed the limit adds
\* nothing and sets the error message.
C30_EveryOverLimitSetsError ==
    /\ Len(modelValue) <= maxFiles
    /\ OverLimit => TurnedDown

\* C30: the number of selected images never exceeds maxFiles; a selection,
\* drop or URL addition that would exceed the limit adds nothing, and it
\* sets the error message unless the component is disabled.
C30_AtMostMaxFiles ==
    /\ Len(modelValue) <= maxFiles
    /\ OverLimit => Len(modelValue) = maxFiles - lastAddition.places
    /\ (OverLimit /\ ~disabled) => TurnedDown

\* an uploader with one place left that has turned down a selection of two
C30_Witness ==
    /\ maxFiles = 2
    /\ ~disabled
    /\ lastAddition = [count |-> 2, places |-> 1]
    /\ modelValue = <<"url">>
    /\ uploaderError = "max"

====
